---- MODULE Spec2Model ----
(***************************************************************************)
(* A model of the moderation decision core of IssueSpotter-backend:        *)
(*   - WebhookService (app/services/webhook_service.py): the outbound      *)
(*     notification dispatcher with its retry loop and pending list;       *)
(*   - _score_to_decision (app/pipelines/moderation/classifier.py);        *)
(*   - ModerationRules (app/pipelines/moderation/rules.py) and             *)
(*     DecisionEngine.make_decision (app/pipelines/moderation/decision.py);*)
(*   - AIClassifier.classify_full and classify_legacy with what they call  *)
(*     in app/ai/image_analyser.py, app/ai/video_analyzer.py and           *)
(*     app/services/vector_service.py;                                     *)
(*   - ModerationPipeline.process_issue (runner.py) and the Celery task    *)
(*     moderate_issue_task (app/workers/moderation_worker.py);             *)
(*   - VectorService (app/services/vector_service.py) on the Qdrant        *)
(*     collections it keeps: initialize_collection, upsert_embedding,      *)
(*     the searches, update_human_decision and get_pending_reviews, each   *)
(*     call a sequence of requests to the Qdrant server, one request one   *)
(*     atomic step.                                                        *)
(*                                                                         *)
(* A call that may raise is modelled by its outcome: Returns(v) or         *)
(* Raises(e); a try/except of the code is the case distinction on it.      *)
(* What the models, the store and the database do for an input is part of  *)
(* the input.                                                              *)
(*                                                                         *)
(* WebhookService runs as coroutines on one asyncio event loop: the code   *)
(* between two awaits is one atomic step.  The awaits of send_webhook are  *)
(* client.post (line 99), asyncio.sleep (line 131) and the exit of the     *)
(* "async with httpx.AsyncClient" block (line 94).  A call is suspended    *)
(* in the model while a POST is in flight and, after the last failed       *)
(* attempt, at the exit of the block, which the append to the pending list *)
(* follows.  Python lists are objects: WebhookService._pending_deliveries  *)
(* is a reference into a heap of list objects, so that iterating a list    *)
(* while it is appended to, and rebinding the class attribute while        *)
(* another coroutine still iterates the old list, behave as in CPython.    *)
(*                                                                         *)
(* Scores are floats in the code; the model keeps them in hundredths       *)
(* (0.3 is 30, 0.8 is 80, 1.0 is 100).  A Python str the rules read is a   *)
(* sequence of one-character strings.                                      *)
(***************************************************************************)
EXTENDS Integers, Sequences, FiniteSets, TLC

VARIABLES
    lists,               \* heap of list objects: list id -> sequence of pending deliveries
    pending_deliveries,  \* WebhookService._pending_deliveries: the id of the list it is bound to
    settings_url,        \* settings.MAIN_BACKEND_WEBHOOK_URL
    pc,                  \* per task: where the coroutine is suspended
    op,                  \* per task: the entry point the task is running
    sw,                  \* per task: the locals of the running send_webhook call
    rp,                  \* per task: the locals of the running retry_pending_deliveries call
    hist,                \* per task: what the running call has done so far (observation only)
    ret,                 \* the value the last step returned to a caller of the service (NoRet: none)
    nfail,               \* failed POST attempts so far (the destination's failure budget)
    nother,              \* POST attempts so far that ended otherwise than in 200 or a refused connection
    handed,              \* deliveries handed to send_webhook by a caller (observation only)
    delivered,           \* deliveries the destination answered with a success code (observation only)
    score,               \* the argument of the last _score_to_decision call
    score_decision,      \* its result ("none": not called yet)
    prev_score,          \* the argument of the call before it
    prev_decision,       \* and that call's result
    title,               \* the cleaned title of the issue under moderation
    description,         \* its cleaned description
    rules_result,        \* the dict ModerationRules.run_all_checks returned
    ai_result,           \* the dict handed to make_decision as the AI classifier's result
    decision_result,     \* the dict DecisionEngine.make_decision returned
    stage,               \* how far the moderation of the issue has got
    request,             \* the post AIClassifier is asked to classify, with what its models do
    classification,      \* the ClassificationResult classify_full returned
    issue_id,            \* the id the moderation worker is started with
    issues,              \* the issues table: id -> the issue's row
    ran,                 \* the entry points of the pipeline that have been run
    pipeline_result,     \* what process_issue did for the issue: the dict returned or the exception raised
    task_result,         \* the dict moderate_issue_task returned
    qdrant,              \* the Qdrant server: collection name -> the collection and its points
    clock,               \* datetime.utcnow(), in hours
    calls,               \* per caller: the VectorService call it is running, with its locals
    store_ret            \* the VectorService call that returned last, with what it returned

hookVars == <<lists, pending_deliveries, settings_url, pc, op, sw, rp, hist, ret,
              nfail, nother, handed, delivered>>

tierVars == <<score, score_decision, prev_score, prev_decision>>

decisionVars == <<title, description, rules_result, ai_result, decision_result, stage>>

classifyVars == <<request, classification>>

workerVars == <<issue_id, issues, ran, pipeline_result, task_result>>

storeVars == <<qdrant, clock, calls, store_ret>>

vars == <<hookVars, tierVars, decisionVars, classifyVars, workerVars, storeVars>>

----------------------------------------------------------------------------
(* Bounds of the model *)

\* failed POST attempts the destination may answer with before it stays healthy
MaxFail == 6
\* POST attempts that may end otherwise than in status 200 or a refused connection
\* (a timeout, another exception, any other status code)
MaxOther == 1

\* the coroutines that may run entry points of the service at the same time
TaskOrder == <<"t1", "t2">>
Tasks == {TaskOrder[i] : i \in 1 .. Len(TaskOrder)}
\* the destinations of direct send_webhook calls (notify_main_backend posts to "u1")
Urls == {"u2"}
\* payloads in the order callers hand them in (each is handed in once: post ids are unique)
Payloads == <<"a", "b">>
\* status codes the destination may answer with
StatusCodes == {200, 201, 202, 203, 204, 500}
\* one list object per task that may hold an old list, plus the bound one
ListIds == 0 .. Cardinality(Tasks)

\* the largest score handed to _score_to_decision, in hundredths
MaxScore == 120
\* the largest number of words in a description
MaxWords == 3

----------------------------------------------------------------------------
(* webhook_service.py: constants *)

MAX_RETRIES == 3
INITIAL_RETRY_DELAY == 1
MAX_RETRY_DELAY == 30

Min(a, b) == IF a < b THEN a ELSE b

NoError == [kind |-> "none", code |-> 0]

\* last_error as the four branches of send_webhook set it (lines 114, 118, 122, 126)
HttpError(code) == [kind |-> "http", code |-> code]
TimeoutError == [kind |-> "Request timeout", code |-> 0]
ConnectError == [kind |-> "Connection refused", code |-> 0]
OtherError == [kind |-> "exception", code |-> 0]

\* a variant of line 105 that takes every 2xx status for a success
IsAny2xx(code) == code \in 200 .. 299

\* line 105: response.status_code in (200, 201, 202, 204)
IsSuccessStatus(code) == code \in {200, 201, 202, 204}

\* lines 91-92: the locals of a send_webhook call as its first POST is issued
NewFrame(url, payload) ==
    [url |-> url, payload |-> payload, attempt |-> 1,
     retry_delay |-> INITIAL_RETRY_DELAY, last_error |-> NoError, status_code |-> 0]

NoFrame ==
    [url |-> "-", payload |-> "-", attempt |-> 0,
     retry_delay |-> 0, last_error |-> NoError, status_code |-> 0]

\* lines 247-248: the locals of a retry_pending_deliveries call
NewRetry(list) ==
    [iter |-> list, idx |-> 0, remaining |-> <<>>,
     retried |-> 0, success |-> 0, failed |-> 0]

NoRetry ==
    [iter |-> -1, idx |-> 0, remaining |-> <<>>,
     retried |-> 0, success |-> 0, failed |-> 0]

\* lines 138-143: the dict appended to the pending list (failed_at, a clock reading, is left out)
PendingEntry(f) == [url |-> f.url, payload |-> f.payload, error |-> f.last_error]

\* line 132: retry_delay = min(retry_delay * 2, MAX_RETRY_DELAY)
NextDelay(d) == Min(d * 2, MAX_RETRY_DELAY)

\* a variant of line 130 that also sleeps after the last attempt
MayRetryAlways(attempt) == attempt <= MAX_RETRIES

\* line 130: if attempt < MAX_RETRIES
MayRetry(attempt) == attempt < MAX_RETRIES

\* line 95: for attempt in range(1, MAX_RETRIES + 1)
Attempts == 1 .. MAX_RETRIES

----------------------------------------------------------------------------
(* Observation of a call *)

NoOutcome == [kind |-> "none", code |-> 0]

\* the destination answered a POST with one of the success codes
HealthyAnswer(outcome) == outcome.kind = "response" /\ outcome.code \in {200, 201, 202, 204}

\* what a running call did so far: the POSTs it issued, the seconds it slept, how each
\* answered POST ended; whether another call ran meanwhile; whether some POST, of this
\* call or of another, was not answered with success while the call ran; for
\* retry_pending_deliveries the length of the list at the start
NoHist ==
    [posts |-> 0, waits |-> <<>>, outcomes |-> <<>>,
     overlap |-> FALSE, startLen |-> 0, unhealthy |-> FALSE]

Observe(h, outcome) ==
    [h EXCEPT !.outcomes = Append(@, outcome),
              !.unhealthy = @ \/ ~HealthyAnswer(outcome)]

NoRet ==
    [op |-> "none", success |-> FALSE, status_code |-> 0, error |-> NoError,
     attempts |-> 0, retried |-> 0, nsuccess |-> 0, failed |-> 0,
     posts |-> 0, waits |-> <<>>, outcomes |-> <<>>,
     alone |-> TRUE, startList |-> <<>>, unhealthy |-> FALSE, pending |-> <<>>]

Key(e) == [url |-> e.url, payload |-> e.payload]
Keys(s) == {Key(s[i]) : i \in 1 .. Len(s)}

Busy(t) == pc[t] # "idle"

\* a step of the webhook service leaves the moderation pipeline's variables alone
PipelineRests == UNCHANGED <<tierVars, decisionVars, classifyVars, workerVars, storeVars>>

\* idle tasks hold no state and are interchangeable: a new call is run by the first idle one
Free(t) ==
    /\ pc[t] = "idle"
    /\ \A i, j \in 1 .. Len(TaskOrder) : (i < j /\ TaskOrder[j] = t) => Busy(TaskOrder[i])

\* hist as task t starts a call: t overlaps whoever is running, and they overlap t
MarkStart(t, h) ==
    [u \in Tasks |->
        IF u = t THEN [h EXCEPT !.overlap = \E v \in Tasks \ {t} : Busy(v)]
        ELSE IF Busy(u) THEN [hist[u] EXCEPT !.overlap = TRUE]
        ELSE hist[u]]

\* hist as a POST of task t fails and leaves t with h: every running call has seen a failure
MarkFailure(t, h) ==
    [u \in Tasks |->
        IF u = t THEN h
        ELSE IF Busy(u) THEN [hist[u] EXCEPT !.unhealthy = TRUE]
        ELSE hist[u]]

\* lines 107-112 and 145-149: the WebhookResult of a send_webhook call, with what the call did
SendResult(t, success, f, h) ==
    [NoRet EXCEPT !.op = op[t], !.success = success,
                  !.status_code = IF success THEN f.status_code ELSE 0,
                  !.error = IF success THEN NoError ELSE f.last_error,
                  !.attempts = IF success THEN f.attempt ELSE MAX_RETRIES,
                  !.posts = h.posts, !.waits = h.waits, !.outcomes = h.outcomes,
                  !.alone = ~h.overlap]

----------------------------------------------------------------------------
(* retry_pending_deliveries, lines 250-263: the loop from one await to the next *)

\* a list id no running retry iterates and the class attribute is not bound to
FreshId(t) ==
    CHOOSE i \in ListIds :
        /\ i # pending_deliveries
        /\ \A u \in Tasks \ {t} : ~(Busy(u) /\ op[u] = "retry" /\ rp[u].iter = i)
        /\ \A j \in ListIds :
              (/\ j # pending_deliveries
               /\ \A u \in Tasks \ {t} : ~(Busy(u) /\ op[u] = "retry" /\ rp[u].iter = j))
              => i <= j

\* line 262: cls._pending_deliveries = remaining; lists nothing refers to any more are dropped
Publish(t, ls, remaining) ==
    LET new == FreshId(t)
        live(i) == \/ i = new
                   \/ \E u \in Tasks \ {t} : Busy(u) /\ op[u] = "retry" /\ rp[u].iter = i
    IN  [i \in ListIds |-> IF i = new THEN remaining ELSE IF live(i) THEN ls[i] ELSE <<>>]

\* the for statement's next step over the list object r.iter (line 250), then either
\* lines 251-254 up to the first POST of the next delivery, or lines 262-263
RetryContinue(t, ls, r, h) ==
    IF r.idx < Len(ls[r.iter])
    THEN LET d == ls[r.iter][r.idx + 1] IN
         /\ lists' = ls
         /\ pending_deliveries' = pending_deliveries
         /\ rp' = [rp EXCEPT ![t] = [r EXCEPT !.idx = r.idx + 1, !.retried = r.retried + 1]]
         /\ sw' = [sw EXCEPT ![t] = NewFrame(d.url, d.payload)]
         /\ hist' = [hist EXCEPT ![t] = [h EXCEPT !.posts = 1, !.waits = <<>>, !.outcomes = <<>>]]
         /\ pc' = [pc EXCEPT ![t] = "post"]
         /\ op' = op
         /\ ret' = NoRet
    ELSE /\ lists' = Publish(t, ls, r.remaining)
         /\ pending_deliveries' = FreshId(t)
         /\ rp' = [rp EXCEPT ![t] = NoRetry]
         /\ sw' = [sw EXCEPT ![t] = NoFrame]
         /\ hist' = [hist EXCEPT ![t] = NoHist]
         /\ pc' = [pc EXCEPT ![t] = "idle"]
         /\ op' = [op EXCEPT ![t] = "none"]
         /\ ret' = [NoRet EXCEPT !.op = "retry", !.retried = r.retried,
                                 !.nsuccess = r.success, !.failed = r.failed,
                                 !.alone = ~h.overlap,
                                 !.startList = SubSeq(ls[r.iter], 1, h.startLen),
                                 !.unhealthy = h.unhealthy, !.pending = r.remaining]

\* a send_webhook call returns to its caller: to the task's caller (lines 189, 204)
\* or into the loop of retry_pending_deliveries (lines 254-260)
Return(t, ls, success, f, h) ==
    IF op[t] = "retry"
    THEN LET d == ls[rp[t].iter][rp[t].idx]
             r == IF success
                  THEN [rp[t] EXCEPT !.success = rp[t].success + 1]
                  ELSE [rp[t] EXCEPT !.failed = rp[t].failed + 1,
                                     !.remaining = Append(rp[t].remaining, d)]
         IN  RetryContinue(t, ls, r, h)
    ELSE /\ lists' = ls
         /\ pending_deliveries' = pending_deliveries
         /\ rp' = rp
         /\ sw' = [sw EXCEPT ![t] = NoFrame]
         /\ hist' = [hist EXCEPT ![t] = NoHist]
         /\ pc' = [pc EXCEPT ![t] = "idle"]
         /\ op' = [op EXCEPT ![t] = "none"]
         /\ ret' = SendResult(t, success, f, h)

----------------------------------------------------------------------------
(* Initial state: the class attribute is bound to an empty list (line 62) *)

InitHook ==
    /\ lists = [i \in ListIds |-> <<>>]
    /\ pending_deliveries = 0
    /\ settings_url \in {"None", "u1"}
    /\ pc = [t \in Tasks |-> "idle"]
    /\ op = [t \in Tasks |-> "none"]
    /\ sw = [t \in Tasks |-> NoFrame]
    /\ rp = [t \in Tasks |-> NoRetry]
    /\ hist = [t \in Tasks |-> NoHist]
    /\ ret = NoRet
    /\ nfail = 0
    /\ nother = 0
    /\ handed = {}
    /\ delivered = {}

----------------------------------------------------------------------------
(* send_webhook *)

\* lines 82-103: a caller hands (url, payload) to send_webhook; the first POST is issued
StartSend(t, kind, url, payload) ==
    /\ pc' = [pc EXCEPT ![t] = "post"]
    /\ op' = [op EXCEPT ![t] = kind]
    /\ sw' = [sw EXCEPT ![t] = NewFrame(url, payload)]
    /\ hist' = MarkStart(t, [NoHist EXCEPT !.posts = 1])
    /\ handed' = handed \cup {[url |-> url, payload |-> payload]}
    /\ ret' = NoRet
    /\ UNCHANGED <<lists, pending_deliveries, settings_url, rp, nfail, nother, delivered>>

\* the payload of the next call: the first one not handed in yet
NextPayload == Payloads[Cardinality(handed) + 1]

\* send_webhook(url, payload) called directly (send_webhook_sync, lines 192-211)
Deliver(t, url) ==
    /\ Free(t)
    /\ PipelineRests
    /\ Cardinality(handed) < Len(Payloads)
    /\ StartSend(t, "deliver", url, NextPayload)

\* lines 129-132, then 95-103: after a failed attempt either sleep retry_delay seconds,
\* double the delay and issue the next POST, or leave the loop.  The sleep is an await,
\* but nothing another coroutine can see changes between the failed attempt and the
\* next POST being in flight, so the model does not stop at it.
AfterFailure(t, err, outcome) ==
    /\ nfail < MaxFail
    /\ nfail' = nfail + 1
    /\ IF outcome.kind = "connect"
       THEN nother' = nother
       ELSE nother < MaxOther /\ nother' = nother + 1
    /\ LET slept == MayRetry(sw[t].attempt)
           f == [sw[t] EXCEPT !.last_error = err,
                              !.retry_delay = IF slept THEN NextDelay(@) ELSE @]
           h == [Observe(hist[t], outcome) EXCEPT
                    !.waits = IF slept THEN Append(@, sw[t].retry_delay) ELSE @]
       IN  IF sw[t].attempt + 1 \in Attempts
           THEN /\ pc' = pc
                /\ sw' = [sw EXCEPT ![t] = [f EXCEPT !.attempt = @ + 1]]
                /\ hist' = MarkFailure(t, [h EXCEPT !.posts = @ + 1])
           ELSE /\ pc' = [pc EXCEPT ![t] = "close_fail"]
                /\ sw' = [sw EXCEPT ![t] = f]
                /\ hist' = MarkFailure(t, h)
    /\ ret' = NoRet
    /\ UNCHANGED <<lists, pending_deliveries, settings_url, op, rp, handed, delivered>>

\* lines 99-115: the POST is answered with a status code.  On a success code the result
\* is returned (lines 107-112): leaving the "async with" block is an await, but nothing
\* another coroutine can see changes between the response and the return, so the model
\* takes them as one step.
PostResponse(t, code) ==
    /\ pc[t] = "post"
    /\ PipelineRests
    /\ LET outcome == [kind |-> "response", code |-> code] IN
       IF IsSuccessStatus(code)
       THEN /\ IF code = 200
               THEN nother' = nother
               ELSE nother < MaxOther /\ nother' = nother + 1
            /\ delivered' = delivered \cup {Key(sw[t])}
            /\ Return(t, lists, TRUE, [sw[t] EXCEPT !.status_code = code],
                      Observe(hist[t], outcome))
            /\ UNCHANGED <<settings_url, nfail, handed>>
       ELSE AfterFailure(t, HttpError(code), outcome)

\* lines 117-119: httpx.TimeoutException
PostTimeout(t) ==
    /\ pc[t] = "post"
    /\ PipelineRests
    /\ AfterFailure(t, TimeoutError, [kind |-> "timeout", code |-> 0])

\* lines 121-123: httpx.ConnectError
PostConnectError(t) ==
    /\ pc[t] = "post"
    /\ PipelineRests
    /\ AfterFailure(t, ConnectError, [kind |-> "connect", code |-> 0])

\* lines 125-127: any other exception
PostException(t) ==
    /\ pc[t] = "post"
    /\ PipelineRests
    /\ AfterFailure(t, OtherError, [kind |-> "exception", code |-> 0])

\* a variant of lines 134-149 that returns the failure without queueing the delivery
CloseFailNoAppend(t) ==
    /\ pc[t] = "close_fail"
    /\ PipelineRests
    /\ Return(t, lists, FALSE, sw[t], hist[t])
    /\ UNCHANGED <<settings_url, nfail, nother, handed, delivered>>

\* lines 134-149: the client is closed, the delivery is appended to the list the class
\* attribute is bound to now, and the failure result is returned
CloseFail(t) ==
    /\ pc[t] = "close_fail"
    /\ PipelineRests
    /\ Return(t, [lists EXCEPT ![pending_deliveries] = Append(@, PendingEntry(sw[t]))], FALSE,
              sw[t], hist[t])
    /\ UNCHANGED <<settings_url, nfail, nother, handed, delivered>>

----------------------------------------------------------------------------
(* notify_main_backend, lines 170-189 *)

\* a variant of line 172 that tests for the empty string only
OnlyEmptyUrl(url) == url = ""

\* line 172: if not webhook_url (None and "" are both falsy)
NotConfigured(url) == url \in {"None", ""}

Notify(t) ==
    /\ Free(t)
    /\ PipelineRests
    /\ Cardinality(handed) < Len(Payloads)
    /\ IF NotConfigured(settings_url)
       THEN /\ ret' = [NoRet EXCEPT !.op = "notify", !.success = FALSE,
                                    !.error = [kind |-> "Webhook URL not configured", code |-> 0]]
            /\ UNCHANGED <<lists, pending_deliveries, settings_url, pc, op, sw, rp, hist,
                           nfail, nother, handed, delivered>>
       ELSE StartSend(t, "notify", settings_url, NextPayload)

----------------------------------------------------------------------------
(* retry_pending_deliveries, lines 241-263 *)

RetryPending(t) ==
    /\ Free(t)
    /\ PipelineRests
    /\ IF lists[pending_deliveries] = <<>>
       THEN /\ ret' = [NoRet EXCEPT !.op = "retry"]
            /\ UNCHANGED <<lists, pending_deliveries, pc, op, sw, rp, hist>>
       ELSE LET h == MarkStart(t, [NoHist EXCEPT !.startLen = Len(lists[pending_deliveries])])
            IN  /\ op' = [op EXCEPT ![t] = "retry"]
                /\ pc' = [pc EXCEPT ![t] = "post"]
                /\ sw' = [sw EXCEPT ![t] = NewFrame(lists[pending_deliveries][1].url,
                                                    lists[pending_deliveries][1].payload)]
                /\ rp' = [rp EXCEPT ![t] = [NewRetry(pending_deliveries) EXCEPT
                                               !.idx = 1, !.retried = 1]]
                /\ hist' = [h EXCEPT ![t].posts = 1]
                /\ ret' = NoRet
                /\ UNCHANGED <<lists, pending_deliveries>>
    /\ UNCHANGED <<settings_url, nfail, nother, handed, delivered>>

----------------------------------------------------------------------------
(* classifier.py: the three-tier thresholds *)

THRESHOLD_GREEN == 30
THRESHOLD_RED == 80

\* a variant of lines 95-100 that compares with > instead of >=
_score_to_decision_strict(s) ==
    IF s > THRESHOLD_RED THEN "RED"
    ELSE IF s > THRESHOLD_GREEN THEN "YELLOW"
    ELSE "GREEN"

\* lines 93-100
_score_to_decision(s) ==
    IF s >= THRESHOLD_RED THEN "RED"
    ELSE IF s >= THRESHOLD_GREEN THEN "YELLOW"
    ELSE "GREEN"

Scores == 0 .. MaxScore

InitTier ==
    /\ score = 0
    /\ score_decision = "none"
    /\ prev_score = 0
    /\ prev_decision = "none"

\* a caller (_analyze_text, _analyze_image, _analyze_video, classify_full) maps a score
ScoreToDecision(s) ==
    /\ UNCHANGED <<hookVars, decisionVars, classifyVars, workerVars, storeVars>>
    /\ score' = s
    /\ score_decision' = _score_to_decision(s)
    /\ prev_score' = score
    /\ prev_decision' = score_decision

----------------------------------------------------------------------------
(* Text: a Python str is a sequence of one-character strings *)

LOWER == <<"a", "b", "c", "d", "e", "f", "g", "h", "i", "j", "k", "l", "m",
           "n", "o", "p", "q", "r", "s", "t", "u", "v", "w", "x", "y", "z">>
UPPER == <<"A", "B", "C", "D", "E", "F", "G", "H", "I", "J", "K", "L", "M",
           "N", "O", "P", "Q", "R", "S", "T", "U", "V", "W", "X", "Y", "Z">>
DIGITS == {"0", "1", "2", "3", "4", "5", "6", "7", "8", "9"}

IsLower(c) == \E i \in DOMAIN LOWER : LOWER[i] = c
IsUpper(c) == \E i \in DOMAIN UPPER : UPPER[i] = c
IsDigit(c) == c \in DIGITS
IsSpace(c) == c = " "
\* \w of the re module
IsWordChar(c) == IsLower(c) \/ IsUpper(c) \/ IsDigit(c) \/ c = "_"

ToLower(c) == IF IsUpper(c) THEN LOWER[CHOOSE i \in DOMAIN UPPER : UPPER[i] = c] ELSE c
ToUpper(c) == IF IsLower(c) THEN UPPER[CHOOSE i \in DOMAIN LOWER : LOWER[i] = c] ELSE c

\* str.lower, str.upper
lower(text) == [i \in 1 .. Len(text) |-> ToLower(text[i])]
upper(text) == [i \in 1 .. Len(text) |-> ToUpper(text[i])]

\* str.isupper: some cased character, and no lowercase one
isupper(text) ==
    /\ \E i \in 1 .. Len(text) : IsUpper(text[i])
    /\ \A i \in 1 .. Len(text) : ~IsLower(text[i])

\* text[i:] starts with p
StartsAt(text, i, p) ==
    i + Len(p) - 1 <= Len(text) /\ SubSeq(text, i, i + Len(p) - 1) = p

\* word in text
Contains(text, word) == \E i \in 1 .. Len(text) : StartsAt(text, i, word)

\* str.split(): the positions where a word starts, and the word starting there
WordStarts(text) ==
    {i \in 1 .. Len(text) : ~IsSpace(text[i]) /\ (i = 1 \/ IsSpace(text[i - 1]))}

WordAt(text, i) ==
    LET e == CHOOSE j \in i .. Len(text) :
                 /\ \A k \in i .. j : ~IsSpace(text[k])
                 /\ j = Len(text) \/ IsSpace(text[j + 1])
    IN  SubSeq(text, i, e)

\* the str a sequence of characters stands for, as a string of the model
RECURSIVE Str(_)
Str(w) == IF w = <<>> THEN "" ELSE w[1] \o Str(Tail(w))

\* sep.join(items)
RECURSIVE Join(_, _)
Join(sep, items) ==
    IF items = <<>> THEN ""
    ELSE IF Len(items) = 1 THEN items[1]
    ELSE items[1] \o sep \o Join(sep, Tail(items))

Max(a, b) == IF a > b THEN a ELSE b

----------------------------------------------------------------------------
(* rules.py *)

BANNED_WORDS ==
    << <<"s", "p", "a", "m">>, <<"f", "a", "k", "e">>, <<"s", "c", "a", "m">>,
       <<"c", "l", "i", "c", "k", "b", "a", "i", "t">>,
       <<"h", "t", "t", "p", ":", "/", "/", "b", "i", "t", ".", "l", "y">>,
       <<"h", "t", "t", "p", ":", "/", "/", "t", "i", "n", "y", "u", "r", "l", ".", "c", "o", "m">> >>

PROFANITY ==
    << <<"f", "u", "c", "k">>, <<"s", "h", "i", "t">>,
       <<"a", "s", "s", "h", "o", "l", "e">>, <<"b", "a", "s", "t", "a", "r", "d">> >>

\* line 30: re.findall(r'(.)\1{4,}', text) finds something
HasRepeatedChars(text) ==
    \E i \in 1 .. Len(text) - 4 : \A j \in 1 .. 4 : text[i + j] = text[i]

\* line 40: the characters the url pattern takes after "://": letters, digits, the
\* range $-_ and the characters ! * \ ( ) ,
UrlChar(c) ==
    \/ IsLower(c) \/ IsUpper(c) \/ IsDigit(c)
    \/ c \in {"$", "%", "&", "'", "(", ")", "*", "+", ",", "-", ".", "/", ":", ";", "<",
              "=", ">", "?", "@", "[", "\\", "]", "^", "_", "!"}

\* where the characters after http:// or https:// start if the pattern's head matches
\* at position i (0: it does not)
UrlBody(text, i) ==
    IF StartsAt(text, i, <<"h", "t", "t", "p", "s", ":", "/", "/">>) THEN i + 8
    ELSE IF StartsAt(text, i, <<"h", "t", "t", "p", ":", "/", "/">>) THEN i + 7
    ELSE 0

\* the last position of the run of url characters that starts at position i
RECURSIVE UrlEnd(_, _)
UrlEnd(text, i) ==
    IF i < Len(text) /\ UrlChar(text[i + 1]) THEN UrlEnd(text, i + 1) ELSE i

\* lines 40-41: len(re.findall(url_pattern, text)), scanning from position i
RECURSIVE CountUrls(_, _)
CountUrls(text, i) ==
    IF i > Len(text) THEN 0
    ELSE LET b == UrlBody(text, i) IN
         IF b > 0 /\ b <= Len(text) /\ UrlChar(text[b])
         THEN 1 + CountUrls(text, UrlEnd(text, b) + 1)
         ELSE CountUrls(text, i + 1)

\* lines 16-52
check_spam(text) ==
    LET text_lower == lower(text)
        Hit(word) == Contains(text_lower, word)
        too_short == Len(text) < 20
        all_caps == isupper(text) /\ Len(text) > 50
        repeated == HasRepeatedChars(text)
        banned == SelectSeq(BANNED_WORDS, Hit)
        many_urls == CountUrls(text, 1) > 2
        spam_indicators ==
            (IF too_short THEN 30 ELSE 0) + (IF all_caps THEN 40 ELSE 0)
            + (IF repeated THEN 30 ELSE 0) + 50 * Len(banned)
            + (IF many_urls THEN 40 ELSE 0)
        flags ==
            (IF too_short THEN <<"TOO_SHORT">> ELSE <<>>)
            \o (IF all_caps THEN <<"ALL_CAPS">> ELSE <<>>)
            \o (IF repeated THEN <<"REPEATED_CHARS">> ELSE <<>>)
            \o [i \in 1 .. Len(banned) |-> "BANNED_WORD_" \o Str(upper(banned[i]))]
            \o (IF many_urls THEN <<"EXCESSIVE_URLS">> ELSE <<>>)
        spam_score == Min(spam_indicators, 100)
    IN  [score |-> spam_score, flags |-> flags,
         decision |-> IF spam_score > 70 THEN "REJECT" ELSE "PASS"]

\* lines 55-72
check_profanity(text) ==
    LET text_lower == lower(text)
        Hit(word) == Contains(text_lower, word)
        found_words == SelectSeq(PROFANITY, Hit)
        profanity_score == Min(Len(found_words) * 30, 100)
    IN  [score |-> profanity_score,
         flags |-> [i \in 1 .. Len(found_words) |-> Str(found_words[i])],
         decision |-> IF profanity_score > 50 THEN "ESCALATE" ELSE "PASS"]

\* line 76: r'\b\d{10,}\b' matches somewhere: a run of ten or more digits with no word
\* character before it and none after it
HasPhoneNumber(text) ==
    \E i, j \in 1 .. Len(text) :
        /\ j - i + 1 >= 10
        /\ \A k \in i .. j : IsDigit(text[k])
        /\ i = 1 \/ ~IsWordChar(text[i - 1])
        /\ j = Len(text) \/ ~IsWordChar(text[j + 1])

\* lines 75-90
check_phone_numbers(text) ==
    IF HasPhoneNumber(text)
    THEN [score |-> 100, flags |-> <<"PHONE_NUMBER">>, decision |-> "REJECT"]
    ELSE [score |-> 0, flags |-> <<>>, decision |-> "PASS"]

\* a variant of lines 93-109 that asks for a uniqueness below 0.1
check_duplicate_content_tenth(text) ==
    LET total_words == Cardinality(WordStarts(text))
        unique_words == Cardinality({WordAt(text, i) : i \in WordStarts(text)})
    IN  IF total_words = 0
        THEN [score |-> 100, flags |-> <<"EMPTY">>, decision |-> "REJECT"]
        ELSE IF 10 * unique_words < total_words
        THEN [score |-> 80, flags |-> <<"LOW_UNIQUENESS">>, decision |-> "ESCALATE"]
        ELSE [score |-> 0, flags |-> <<>>, decision |-> "PASS"]

\* lines 93-109; unique_words / total_words < 0.3 is 10 * unique_words < 3 * total_words
check_duplicate_content(text) ==
    LET total_words == Cardinality(WordStarts(text))
        unique_words == Cardinality({WordAt(text, i) : i \in WordStarts(text)})
    IN  IF total_words = 0
        THEN [score |-> 100, flags |-> <<"EMPTY">>, decision |-> "REJECT"]
        ELSE IF 10 * unique_words < 3 * total_words
        THEN [score |-> 80, flags |-> <<"LOW_UNIQUENESS">>, decision |-> "ESCALATE"]
        ELSE [score |-> 0, flags |-> <<>>, decision |-> "PASS"]

\* a variant of lines 133-138 that lets the profanity check reject
FinalDecisionAnyCheck(spam_result, profanity_result, phone_result, duplicate_result) ==
    IF \E r \in {spam_result, profanity_result, phone_result, duplicate_result} :
           r.decision \in {"REJECT", "ESCALATE"} /\ r.score >= 90
    THEN "REJECT"
    ELSE IF \E r \in {spam_result, profanity_result, duplicate_result} :
                r.decision = "ESCALATE"
    THEN "ESCALATE"
    ELSE "APPROVE"

\* lines 133-138
FinalDecision(spam_result, profanity_result, phone_result, duplicate_result) ==
    IF \E r \in {spam_result, phone_result, duplicate_result} : r.decision = "REJECT"
    THEN "REJECT"
    ELSE IF \E r \in {spam_result, profanity_result, duplicate_result} :
                r.decision = "ESCALATE"
    THEN "ESCALATE"
    ELSE "APPROVE"

\* lines 111-152
run_all_checks(t, d) ==
    LET combined_text == t \o <<" ">> \o d
        spam_result == check_spam(combined_text)
        profanity_result == check_profanity(combined_text)
        phone_result == check_phone_numbers(combined_text)
        duplicate_result == check_duplicate_content(combined_text)
        all_flags == spam_result.flags \o profanity_result.flags
                     \o phone_result.flags \o duplicate_result.flags
        max_score == Max(Max(spam_result.score, profanity_result.score),
                         Max(phone_result.score, duplicate_result.score))
        final_decision ==
            FinalDecision(spam_result, profanity_result, phone_result, duplicate_result)
    IN  [stage |-> "RULES", score |-> max_score, confidence |-> 100,
         flags |-> all_flags, decision |-> final_decision,
         details |-> [spam |-> spam_result, profanity |-> profanity_result,
                      phone |-> phone_result, duplicate |-> duplicate_result]]

----------------------------------------------------------------------------
(* decision.py *)

RED_THRESHOLD == 80
YELLOW_THRESHOLD == 30

\* the (rules score, toxicity, civic_relevance), in hundredths, whose decimal combined
\* score is on a threshold and whose float sum is above it: Python evaluates
\* 0.4 * 0.5 + 0 * 0.3 + (1 - 0.5) * 0.2 to 0.30000000000000004
RoundedUp == {<<10, 50, 50>>, <<20, 0, 0>>, <<40, 0, 50>>}

\* dict.get(key, default)
Get(dict, key, default) == IF key \in DOMAIN dict THEN dict[key] ELSE default

\* lines 25-33: the rules rejected the issue
RejectedByRules(rules, ai) ==
    [stage |-> "DECISION_ENGINE", final_decision |-> "REJECT",
     content_decision |-> "RED", confidence |-> 100,
     reason |-> "Failed rule checks: " \o Join(", ", rules.flags),
     moderation_score |-> rules.score * 10]

\* a variant of lines 36-44 that reports the AI classifier's confidence
EscalatedWithAiConfidence(rules, ai) ==
    [stage |-> "DECISION_ENGINE", final_decision |-> "ESCALATE",
     content_decision |-> "YELLOW", confidence |-> Get(ai, "confidence", 50),
     reason |-> "Requires human review",
     moderation_score |-> rules.score * 10]

\* lines 36-44: the rules ask for a review
EscalatedByRules(rules, ai) ==
    [stage |-> "DECISION_ENGINE", final_decision |-> "ESCALATE",
     content_decision |-> "YELLOW", confidence |-> 70,
     reason |-> "Requires human review",
     moderation_score |-> rules.score * 10]

\* lines 46-74: the rules passed the issue.  The combined score of lines 47-51,
\* rules * 0.5 + toxicity * 0.3 + (1 - civic_relevance) * 0.2, is computed in
\* thousandths.  The code compares the float sum with the threshold: where the decimal
\* sum is on the threshold, the float sum is above it for the inputs in RoundedUp.
ScoredDecision(rules, ai) ==
    LET toxicity == Get(ai, "toxicity", 0)
        civic_relevance == Get(ai, "civic_relevance", 50)
        combined_score == rules.score * 5 + toxicity * 3 + (100 - civic_relevance) * 2
        Above(threshold) ==
            \/ combined_score > threshold * 10
            \/ /\ combined_score = threshold * 10
               /\ <<rules.score, toxicity, civic_relevance>> \in RoundedUp
        tier == IF Above(RED_THRESHOLD) THEN "RED"
                ELSE IF Above(YELLOW_THRESHOLD) THEN "YELLOW"
                ELSE "GREEN"
    IN  [stage |-> "DECISION_ENGINE",
         final_decision |-> CASE tier = "RED" -> "REJECT"
                              [] tier = "YELLOW" -> "ESCALATE"
                              [] OTHER -> "APPROVE",
         content_decision |-> tier,
         confidence |-> Get(ai, "confidence", 50),
         reason |-> CASE tier = "RED" -> "High risk score - auto-reject"
                      [] tier = "YELLOW" -> "Medium risk - needs review"
                      [] OTHER -> "Passed all checks - auto-approve",
         moderation_score |-> combined_score]

\* lines 14-74.  Scores and confidences are hundredths; "moderation_score" is in
\* thousandths in every branch.
make_decision(rules, preprocessing_result, ai) ==
    IF rules.decision = "REJECT" THEN RejectedByRules(rules, ai)
    ELSE IF rules.decision = "ESCALATE" THEN EscalatedByRules(rules, ai)
    ELSE ScoredDecision(rules, ai)

----------------------------------------------------------------------------
(* The issues and AI results the decision engine is run on *)

\* the words descriptions are made of
Vocabulary ==
    { <<"r", "o", "a", "d">>, <<"p", "o", "t", "h", "o", "l", "e">>,
      <<"s", "p", "a", "m">>, <<"s", "h", "i", "t">>, <<"f", "u", "c", "k">>,
      <<"9", "8", "7", "6", "5", "4", "3", "2", "1", "0">>,
      <<"!", "!", "!", "!", "!">>,
      <<"h", "t", "t", "p", ":", "/", "/", "a", ".", "i", "o">> }

\* words joined by single blanks
RECURSIVE JoinWords(_)
JoinWords(ws) ==
    IF ws = <<>> THEN <<>>
    ELSE IF Len(ws) = 1 THEN ws[1]
    ELSE ws[1] \o <<" ">> \o JoinWords(Tail(ws))

Titles == {<<>>, <<"r", "o", "a", "d">>}

Descriptions ==
    {JoinWords(ws) : ws \in UNION {[1 .. n -> Vocabulary] : n \in 0 .. MaxWords}}

\* dicts with any of the three keys make_decision reads, each a score in hundredths
AiKeys == {"toxicity", "civic_relevance", "confidence"}
AiResults == UNION {[K -> {0, 100}] : K \in SUBSET AiKeys}

NoRules == [stage |-> "none", score |-> 0, confidence |-> 0, flags |-> <<>>, decision |-> "none"]

NoDecision ==
    [stage |-> "none", final_decision |-> "none", content_decision |-> "none",
     confidence |-> 0, reason |-> "", moderation_score |-> 0]

InitDecision ==
    /\ title \in Titles
    /\ description \in Descriptions
    /\ rules_result = NoRules
    /\ ai_result = <<>>
    /\ decision_result = NoDecision
    /\ stage = "new"

\* the words the rule engine is tried on: plain and profane words, the banned word in
\* capitals, a ten-digit number alone, after a letter, before an underscore
RuleVocabulary ==
    { <<"r", "o", "a", "d">>, <<"S", "P", "A", "M">>,
      <<"s", "h", "i", "t">>, <<"f", "u", "c", "k">>,
      <<"a", "s", "s", "h", "o", "l", "e">>,
      <<"9", "8", "7", "6", "5", "4", "3", "2", "1", "0">>,
      <<"a", "9", "8", "7", "6", "5", "4", "3", "2", "1", "0">>,
      <<"9", "8", "7", "6", "5", "4", "3", "2", "1", "0", "_">> }

\* the most repetitions of one word in a description
MaxRepeat == 10

\* descriptions of up to MaxWords words, or of the banned word up to MaxRepeat times
RuleDescriptions ==
    {JoinWords(ws) : ws \in UNION {[1 .. n -> RuleVocabulary] : n \in 0 .. MaxWords}}
    \cup {JoinWords([i \in 1 .. k |-> <<"S", "P", "A", "M">>]) : k \in 1 .. MaxRepeat}

InitRules ==
    /\ title \in {<<>>, <<"S", "P", "A", "M">>}
    /\ description \in RuleDescriptions
    /\ rules_result = NoRules
    /\ ai_result = <<>>
    /\ decision_result = NoDecision
    /\ stage = "new"

\* runner.py lines 25-28
RunAllChecks ==
    /\ stage = "new"
    /\ rules_result' = run_all_checks(title, description)
    /\ stage' = "rules"
    /\ UNCHANGED <<title, description, ai_result, decision_result>>
    /\ UNCHANGED <<hookVars, tierVars, classifyVars, workerVars, storeVars>>

\* runner.py lines 42-46, with a as the AI classifier's result
MakeDecision(a) ==
    /\ stage = "rules"
    /\ ai_result' = a
    /\ decision_result' =
           make_decision(rules_result,
                         [clean_title |-> title, clean_description |-> description], a)
    /\ stage' = "decided"
    /\ UNCHANGED <<title, description, rules_result>>
    /\ UNCHANGED <<hookVars, tierVars, classifyVars, workerVars, storeVars>>

----------------------------------------------------------------------------
(* image_analyser.py, video_analyzer.py, vector_service.py: what classify_full calls.  *)
(* A call that may raise returns [ok |-> FALSE, error |-> e] when it raises and        *)
(* [ok |-> TRUE, value |-> v] when it returns v.                                       *)

Returns(v) == [ok |-> TRUE, value |-> v, error |-> ""]
Raises(e) == [ok |-> FALSE, value |-> <<>>, error |-> e]

\* image_analyser.py lines 60-66
NSFW_CLASSES ==
    {"BUTTOCKS_EXPOSED", "FEMALE_BREAST_EXPOSED", "FEMALE_GENITALIA_EXPOSED",
     "MALE_GENITALIA_EXPOSED", "ANUS_EXPOSED"}

\* image_analyser.py lines 68-79: the largest score among the detections of an NSFW class
RECURSIVE MaxNsfwScore(_, _)
MaxNsfwScore(detections, max_nsfw_score) ==
    IF detections = <<>> THEN max_nsfw_score
    ELSE LET detection == Head(detections) IN
         MaxNsfwScore(Tail(detections),
                      IF detection.class \in NSFW_CLASSES /\ detection.score > max_nsfw_score
                      THEN detection.score ELSE max_nsfw_score)

\* image_analyser.py lines 71-79: nsfw_found
NsfwFound(detections) ==
    LET IsNsfw(detection) == detection.class \in NSFW_CLASSES
        found == SelectSeq(detections, IsNsfw)
    IN  [i \in 1 .. Len(found) |-> [type |-> found[i].class, confidence |-> found[i].score]]

\* image_analyser.py line 81: an image is NSFW above this score, in hundredths
NSFW_CONFIDENCE == 60

\* image_analyser.py lines 39-96, ImageAnalyzer.check_nsfw; detector is what
\* self.nsfw_detector does for the image: detector.state is "none" (it was not
\* initialised), "raises" (detect raises) or "ok" (it returns detector.detections)
check_nsfw(detector) ==
    IF detector.state = "none"
    THEN [is_nsfw |-> FALSE, confidence |-> 0, detections |-> <<>>,
          error |-> "Detector not initialised"]
    ELSE IF detector.state = "raises"
    THEN [is_nsfw |-> FALSE, confidence |-> 0, detections |-> <<>>, error |-> "detect failed"]
    ELSE LET max_nsfw_score == MaxNsfwScore(detector.detections, 0) IN
         [is_nsfw |-> max_nsfw_score > NSFW_CONFIDENCE, confidence |-> max_nsfw_score,
          detections |-> NsfwFound(detector.detections), error |-> ""]

\* classifier.py lines 137-142 and 207-208: cls._get_image_analyzer().check_nsfw(image_url);
\* building the analyzer raises when its module cannot be imported
CallCheckNsfw(image) ==
    IF image.analyzer = "raises" THEN Raises("no image analyzer")
    ELSE Returns(check_nsfw(image.detector))

\* classifier.py lines 144-149 and 215-216: cls._get_image_embedder().embed_image(image_url);
\* building the embedder raises when the model cannot be loaded (image_embedder.py line 69)
CallEmbedImage(image) ==
    IF image.embedder = "raises" THEN Raises("no image embedder")
    ELSE IF image.embedder = "none" THEN Returns(<<>>)
    ELSE Returns(<<"vector", image.url>>)

\* video_analyzer.py lines 390 and 393: the thresholds of a video's decision, in hundredths
VIDEO_RED == 80
VIDEO_YELLOW == 30

\* Python's None where a dict is expected
None == [None |-> TRUE]

\* video_analyzer.py line 332: VideoMetadata(0, 0, 0, 0, 0, 0)
NoMetadata == [duration_seconds |-> 0, frame_count |-> 0]

\* video_analyzer.py lines 309-420, VideoAnalyzer.analyze_video; video.source is what
\* happens to the video on the way to its frames and video.frames what the detector
\* does for each extracted frame
analyze_video(video) ==
    IF video.source = "download_failed"
    THEN [is_safe |-> FALSE, decision |-> "RED", max_nsfw_score |-> 0, flagged_frames |-> <<>>,
          total_frames_analyzed |-> 0, metadata |-> NoMetadata,
          error |-> "Failed to download video or video exceeds size limit",
          embeddings |-> <<>>]
    ELSE IF video.source = "no_metadata"
    THEN [is_safe |-> FALSE, decision |-> "RED", max_nsfw_score |-> 0, flagged_frames |-> <<>>,
          total_frames_analyzed |-> 0, metadata |-> NoMetadata,
          error |-> "Failed to read video metadata", embeddings |-> <<>>]
    ELSE IF video.source = "raises"
    THEN [is_safe |-> FALSE, decision |-> "YELLOW", max_nsfw_score |-> 0, flagged_frames |-> <<>>,
          total_frames_analyzed |-> 0, metadata |-> NoMetadata,
          error |-> "video failed", embeddings |-> <<>>]
    ELSE IF video.frames = <<>>
    THEN [is_safe |-> FALSE, decision |-> "YELLOW", max_nsfw_score |-> 0, flagged_frames |-> <<>>,
          total_frames_analyzed |-> 0,
          metadata |-> [duration_seconds |-> 10, frame_count |-> 300],
          error |-> "Failed to extract frames from video", embeddings |-> <<>>]
    ELSE LET \* lines 240-285, _analyze_frame: a frame whose analysis raises scores 0.0
             frame_results ==
                 [i \in 1 .. Len(video.frames) |->
                     LET result == check_nsfw(video.frames[i]) IN
                     [is_nsfw |-> result.is_nsfw, nsfw_score |-> result.confidence]]
             Flagged(result) == result.is_nsfw
             RECURSIVE MaxScore_(_, _)
             MaxScore_(results, m) ==
                 IF results = <<>> THEN m
                 ELSE MaxScore_(Tail(results),
                                IF Head(results).nsfw_score > m
                                THEN Head(results).nsfw_score ELSE m)
             max_nsfw_score == MaxScore_(frame_results, 0)
             decision == IF max_nsfw_score >= VIDEO_RED THEN "RED"
                         ELSE IF max_nsfw_score >= VIDEO_YELLOW THEN "YELLOW"
                         ELSE "GREEN"
         IN  [is_safe |-> decision = "GREEN", decision |-> decision,
              max_nsfw_score |-> max_nsfw_score,
              flagged_frames |-> SelectSeq(frame_results, Flagged),
              total_frames_analyzed |-> Len(video.frames),
              metadata |-> [duration_seconds |-> 10, frame_count |-> 300],
              error |-> "",
              embeddings |-> [i \in 1 .. Len(video.frames) |-> <<"vector", video.url, i>>]]

\* classifier.py lines 158-163 and 247-248: cls._get_video_analyzer().analyze_video(video_url)
CallAnalyzeVideo(video) ==
    IF video.analyzer = "raises" THEN Raises("no video analyzer")
    ELSE Returns(analyze_video(video))

\* find_similar without its time filter
find_similar_any_age(store, limit, score_threshold, time_window_hours) ==
    IF store.state = "unreachable" THEN Raises("Failed to connect to Qdrant")
    ELSE IF store.state = "search_raises" THEN Returns(<<>>)
    ELSE LET Hit(r) == r.similarity_score >= score_threshold
             results == SelectSeq(store.records, Hit)
         IN  Returns(SubSeq(results, 1, Min(limit, Len(results))))

\* vector_service.py lines 221-269, VectorService.find_similar.  store.state is "up",
\* "unreachable" (get_client raises, and it is called outside the try block) or
\* "search_raises" (client.search raises, which the try block turns into []);
\* store.records are the stored issues, the most similar to the query first;
\* time_window_hours is 0 for None ("if time_window_hours:" treats them alike)
find_similar(store, limit, score_threshold, time_window_hours) ==
    IF store.state = "unreachable" THEN Raises("Failed to connect to Qdrant")
    ELSE IF store.state = "search_raises" THEN Returns(<<>>)
    ELSE LET Hit(r) == /\ r.similarity_score >= score_threshold
                       /\ time_window_hours # 0 => r.age_hours <= time_window_hours
             results == SelectSeq(store.records, Hit)
         IN  Returns(SubSeq(results, 1, Min(limit, Len(results))))

\* vector_service.py lines 297-332, VectorService.detect_duplicates
detect_duplicates(store, similarity_threshold, time_window_hours) ==
    LET similar == find_similar(store, 1, similarity_threshold, time_window_hours) IN
    IF ~similar.ok THEN similar
    ELSE IF similar.value # <<>> THEN Returns(similar.value[1])
    ELSE Returns(None)

\* vector_service.py line 369: score_threshold of get_similar_decisions, in hundredths
DECISIONS_THRESHOLD == 75

\* vector_service.py lines 355-372, VectorService.get_similar_decisions
get_similar_decisions(store, limit) == find_similar(store, limit, DECISIONS_THRESHOLD, 0)

----------------------------------------------------------------------------
(* classifier.py: AIClassifier *)

\* classifier.py line 286: similarity_threshold of the duplicate check, in hundredths
DUPLICATE_THRESHOLD == 90
\* classifier.py line 287: time_window_hours of the duplicate check
DUPLICATE_WINDOW == 24
\* classifier.py line 304: limit of _get_similar_decisions
SIMILAR_LIMIT == 3
\* classifier.py line 439: the score appended when moderators rejected similar cases
RAG_SCORE == 60
\* classifier.py lines 197, 238 and 273: the score of an item whose analysis raised
ERROR_SCORE == 50

\* lines 165-200; text is what the text embedder does: "ok" or "raises"
_analyze_text(text) ==
    IF text = "raises"
    THEN [content_type |-> "text", score |-> ERROR_SCORE, decision |-> "YELLOW",
          details |-> "{'error': 'no text embedder'}", embedding |-> <<>>]
    ELSE [content_type |-> "text", score |-> 0, decision |-> "GREEN",
          details |-> "{'embedding_generated': True}", embedding |-> <<"vector", "text">>]

\* lines 202-241
_analyze_image(image) ==
    LET nsfw_result == CallCheckNsfw(image)
        emb == CallEmbedImage(image)
    IN  IF ~nsfw_result.ok
        THEN [content_type |-> "image", score |-> ERROR_SCORE, decision |-> "YELLOW",
              details |-> [error |-> nsfw_result.error, url |-> image.url],
              embedding |-> <<>>]
        ELSE LET nsfw_score == nsfw_result.value.confidence IN
             [content_type |-> "image", score |-> nsfw_score,
              decision |-> _score_to_decision(nsfw_score),
              details |-> [is_nsfw |-> nsfw_result.value.is_nsfw,
                           detections |-> nsfw_result.value.detections,
                           url |-> image.url],
              embedding |-> IF emb.ok THEN emb.value ELSE <<>>]

\* lines 243-276
_analyze_video(video) ==
    LET result == CallAnalyzeVideo(video) IN
    IF ~result.ok
    THEN [content_type |-> "video", score |-> ERROR_SCORE, decision |-> "YELLOW",
          details |-> [error |-> result.error, url |-> video.url], embedding |-> <<>>]
    ELSE [content_type |-> "video", score |-> result.value.max_nsfw_score,
          decision |-> result.value.decision,
          details |-> [duration_seconds |-> result.value.metadata.duration_seconds,
                       frames_analyzed |-> result.value.total_frames_analyzed,
                       flagged_frame_count |-> Len(result.value.flagged_frames),
                       url |-> video.url,
                       error |-> result.value.error],
          embedding |-> IF result.value.embeddings # <<>>
                        THEN result.value.embeddings[1] ELSE <<>>]

\* a variant of lines 278-294 that reports a full duplicate when the store raised
_check_duplicates_failclosed(store) ==
    LET duplicate == detect_duplicates(store, DUPLICATE_THRESHOLD, DUPLICATE_WINDOW) IN
    IF duplicate.ok THEN duplicate.value
    ELSE [issue_id |-> "unknown", similarity_score |-> 100, ai_decision |-> "None",
          human_decision |-> "None", age_hours |-> 0]

\* lines 278-294: None when there is no duplicate or the store raised
_check_duplicates(store) ==
    LET duplicate == detect_duplicates(store, DUPLICATE_THRESHOLD, DUPLICATE_WINDOW) IN
    IF duplicate.ok THEN duplicate.value ELSE None

\* lines 296-311: [] when the store raised
_get_similar_decisions(store) ==
    LET similar == get_similar_decisions(store, SIMILAR_LIMIT) IN
    IF similar.ok THEN similar.value ELSE <<>>

\* lines 401-407 and 415-419: the reason an image or video item adds, if any
ItemReasons(kind, results, urls) ==
    LET Reason(i) ==
            IF results[i].decision = "RED" THEN <<kind \o " flagged RED: " \o urls[i]>>
            ELSE IF results[i].decision = "YELLOW"
            THEN <<kind \o " needs review: " \o urls[i]>>
            ELSE <<>>
        RECURSIVE From(_)
        From(i) == IF i > Len(results) THEN <<>> ELSE Reason(i) \o From(i + 1)
    IN  From(1)

\* max(all_scores), lines 443-446; 0.0 for an empty list
RECURSIVE MaxOf(_)
MaxOf(all_scores) ==
    IF all_scores = <<>> THEN 0
    ELSE Max(Head(all_scores), MaxOf(Tail(all_scores)))

\* the number of records of similar that a moderator rejected, line 437
Rejections(similar) ==
    LET Rejected(s) == s.human_decision = "REJECT" IN Len(SelectSeq(similar, Rejected))

\* a variant of line 438 that counts a half as a majority
RagBiasFromHalf(similar) ==
    similar # <<>> /\ 2 * Rejections(similar) >= Len(similar)

\* lines 436-438: strictly more than half of the similar cases were rejected by moderators
RagBias(similar) ==
    similar # <<>> /\ 2 * Rejections(similar) > Len(similar)

\* a variant of lines 443-446 that takes the last score of the list
FinalScoreOfLast(all_scores) ==
    IF all_scores = <<>> THEN 0 ELSE all_scores[Len(all_scores)]

\* lines 443-446
FinalScore(all_scores) == MaxOf(all_scores)

\* lines 347-457, classify_full; req.text, req.images, req.videos and
\* req.store say what the models and the vector store do for this post.  The locals
\* all_scores and reasons are kept with the result, for observation only.
classify_full(req) ==
    LET text_result == _analyze_text(req.text)
        text_embedding == text_result.embedding
        image_analyses == [i \in 1 .. Len(req.images) |-> _analyze_image(req.images[i])]
        video_analyses == [i \in 1 .. Len(req.videos) |-> _analyze_video(req.videos[i])]
        HasEmbedding(a) == a.embedding # <<>>
        duplicate == IF text_embedding # <<>> THEN _check_duplicates(req.store)
                     ELSE None
        similar == IF text_embedding # <<>> THEN _get_similar_decisions(req.store)
                   ELSE <<>>
        all_scores ==
            (IF text_result.decision # "GREEN" THEN <<text_result.score>> ELSE <<>>)
            \o [i \in 1 .. Len(image_analyses) |-> image_analyses[i].score]
            \o [i \in 1 .. Len(video_analyses) |-> video_analyses[i].score]
            \o (IF duplicate # None THEN <<duplicate.similarity_score>> ELSE <<>>)
            \o (IF RagBias(similar) THEN <<RAG_SCORE>> ELSE <<>>)
        reasons ==
            (IF text_result.decision # "GREEN"
             THEN <<"Text: " \o text_result.details>> ELSE <<>>)
            \o ItemReasons("Image", image_analyses,
                           [i \in 1 .. Len(req.images) |-> req.images[i].url])
            \o ItemReasons("Video", video_analyses,
                           [i \in 1 .. Len(req.videos) |-> req.videos[i].url])
            \o (IF duplicate # None
                THEN <<"Duplicate of " \o duplicate.issue_id \o " (similarity: "
                       \o ToString(duplicate.similarity_score) \o ".0%)">>
                ELSE <<>>)
            \o (IF RagBias(similar)
                THEN <<"Similar past cases rejected by moderators ("
                       \o ToString(Rejections(similar)) \o "/"
                       \o ToString(Len(similar)) \o ")">>
                ELSE <<>>)
        final_score == FinalScore(all_scores)
    IN  [post_id |-> req.post_id,
         final_decision |-> _score_to_decision(final_score),
         final_score |-> final_score,
         reason |-> IF reasons # <<>> THEN Join("; ", reasons)
                    ELSE "Content passed all checks",
         text_analysis |-> text_result,
         image_analyses |-> image_analyses,
         video_analyses |-> video_analyses,
         text_embedding |-> text_embedding,
         image_embeddings |->
             LET with == SelectSeq(image_analyses, HasEmbedding) IN
             [i \in 1 .. Len(with) |-> with[i].embedding],
         duplicate_detected |-> duplicate # None,
         duplicate_info |-> duplicate,
         similar_cases |-> similar,
         all_scores |-> all_scores,
         reasons |-> reasons]

\* lines 474-478: decision_map
DecisionMap(tier) ==
    CASE tier = "GREEN" -> "APPROVE"
      [] tier = "YELLOW" -> "ESCALATE"
      [] tier = "RED" -> "REJECT"

\* lines 459-498, classify_legacy: the dict the decision engine is given
classify_legacy(req) ==
    LET result == classify_full([req EXCEPT !.post_id = "legacy", !.videos = <<>>])
        Nsfw(a) == a.decision # "GREEN"
    IN  [stage |-> "AI_CLASSIFIER",
         decision |-> DecisionMap(result.final_decision),
         confidence |-> result.final_score,
         reason |-> result.reason,
         image_analysis |->
             [has_nsfw |-> SelectSeq(result.image_analyses, Nsfw) # <<>>,
              max_nsfw_score |->
                  MaxOf([i \in 1 .. Len(result.image_analyses) |->
                            result.image_analyses[i].score])],
         duplicate_detected |-> result.duplicate_detected,
         similar_cases |-> [count |-> Len(result.similar_cases)]]

----------------------------------------------------------------------------
(* The posts the classifier is run on *)

\* what the detector does for a picture: it finds nothing exposed, exposure scored on
\* the lower threshold, exposure scored above the upper threshold, or it raises
Detector ==
    LET Detects(detections) == [state |-> "ok", detections |-> detections]
        Detection(class, s) == [class |-> class, score |-> s]
    IN  [clean |-> Detects(<<Detection("FACE_FEMALE", 90)>>),
         borderline |-> Detects(<<Detection("BUTTOCKS_EXPOSED", THRESHOLD_GREEN)>>),
         explicit |-> Detects(<<Detection("FACE_FEMALE", 90),
                                Detection("FEMALE_BREAST_EXPOSED", 85)>>),
         raises |-> [state |-> "raises", detections |-> <<>>]]

\* an image without its url: whether the analyzer can be built, what the detector does,
\* what the embedder does
ImageKinds ==
    { [analyzer |-> "ok", detector |-> Detector.clean, embedder |-> "ok"],
      [analyzer |-> "ok", detector |-> Detector.borderline, embedder |-> "none"],
      [analyzer |-> "ok", detector |-> Detector.explicit, embedder |-> "ok"],
      [analyzer |-> "ok", detector |-> Detector.explicit, embedder |-> "raises"],
      [analyzer |-> "ok", detector |-> Detector.raises, embedder |-> "ok"],
      [analyzer |-> "raises", detector |-> Detector.raises, embedder |-> "ok"] }

\* a video without its url: whether the analyzer can be built, what happens on the way
\* to the frames, what the detector does for each frame
VideoKinds ==
    { [analyzer |-> "ok", source |-> "ok", frames |-> <<Detector.clean>>],
      [analyzer |-> "ok", source |-> "ok",
       frames |-> <<Detector.raises, Detector.borderline>>],
      [analyzer |-> "ok", source |-> "ok", frames |-> <<Detector.clean, Detector.explicit>>],
      [analyzer |-> "ok", source |-> "ok", frames |-> <<>>],
      [analyzer |-> "ok", source |-> "download_failed", frames |-> <<>>],
      [analyzer |-> "ok", source |-> "no_metadata", frames |-> <<>>],
      [analyzer |-> "ok", source |-> "raises", frames |-> <<>>],
      [analyzer |-> "raises", source |-> "ok", frames |-> <<>>] }

\* the most images and videos of a post, together
MaxItems == 2

\* the lists of n images, and of n videos, each with the url of its place
ImageLists(n) ==
    {[i \in 1 .. n |->
         [url |-> "image" \o ToString(i), analyzer |-> k[i].analyzer,
          detector |-> k[i].detector, embedder |-> k[i].embedder]] :
        k \in [1 .. n -> ImageKinds]}

VideoLists(n) ==
    {[i \in 1 .. n |->
         [url |-> "video" \o ToString(i), analyzer |-> k[i].analyzer,
          source |-> k[i].source, frames |-> k[i].frames]] :
        k \in [1 .. n -> VideoKinds]}

\* the stores: reachable with up to SIMILAR_LIMIT + 1 similar issues, the nearest first,
\* or failing.  The issues stored are a duplicate a moderator rejected, similar issues
\* a moderator rejected and similar issues only the classifier has judged.
Stores ==
    LET Stored(id, similarity, human) ==
            [issue_id |-> id, similarity_score |-> similarity, ai_decision |-> "REJECT",
             human_decision |-> human, age_hours |-> 1]
        Near == {Stored("dup", 95, "REJECT")}
        Far == {Stored("rejected", 80, "REJECT"), Stored("unreviewed", 80, "None")}
    IN  {[state |-> "up", records |-> near \o far] :
            near \in UNION {[1 .. n -> Near] : n \in 0 .. 1},
            far \in UNION {[1 .. n -> Far] : n \in 0 .. SIMILAR_LIMIT + 1}}
        \cup {[state |-> s, records |-> <<>>] : s \in {"unreachable", "search_raises"}}

NoStore == [state |-> "up", records |-> <<>>]

\* the posts whose classify_legacy dict the decision engine is given: text and at most
\* one image, with an empty store or one that holds a duplicate
LegacyRequests ==
    {[post_id |-> "legacy", text |-> "ok", images |-> im, videos |-> <<>>, store |-> st] :
        im \in ImageLists(0) \cup ImageLists(1),
        st \in {st \in Stores :
                    /\ st.state = "up"
                    /\ \A i \in DOMAIN st.records : i = 1 /\ st.records[i].issue_id = "dup"}}

NoRequest ==
    [post_id |-> "none", text |-> "ok", images |-> <<>>, videos |-> <<>>,
     store |-> NoStore]

NoClassification == [post_id |-> "none"]

ClassifyIdle ==
    /\ request = NoRequest
    /\ classification = NoClassification

\* a post of up to MaxItems images and videos; the store is consulted only when the
\* text has an embedding
InitClassify ==
    /\ \E ni \in 0 .. MaxItems : \E nv \in 0 .. MaxItems - ni :
       \E im \in ImageLists(ni), vi \in VideoLists(nv), t \in {"ok", "raises"} :
       \E st \in IF t = "ok" THEN Stores ELSE {NoStore} :
           request = [post_id |-> "post", text |-> t, images |-> im, videos |-> vi,
                      store |-> st]
    /\ classification = NoClassification

\* classify, lines 313-345: runs classify_full on the request
ClassifyFull ==
    /\ classification = NoClassification
    /\ request # NoRequest
    /\ classification' = classify_full(request)
    /\ UNCHANGED request
    /\ UNCHANGED <<hookVars, tierVars, decisionVars, workerVars, storeVars>>

----------------------------------------------------------------------------
(* preprocessor.py, runner.py, moderation_worker.py: the pipeline and its worker *)

\* preprocessor.py lines 7-10: text.strip(), then re.sub(r'\s+', ' ', text)
clean_text(text) ==
    LET RECURSIVE LStrip(_), RStrip(_), Collapse(_)
        LStrip(t) == IF t # <<>> /\ IsSpace(Head(t)) THEN LStrip(Tail(t)) ELSE t
        RStrip(t) == IF t # <<>> /\ IsSpace(t[Len(t)])
                     THEN RStrip(SubSeq(t, 1, Len(t) - 1)) ELSE t
        Collapse(t) == IF t = <<>> THEN <<>>
                       ELSE IF IsSpace(Head(t)) THEN <<" ">> \o Collapse(LStrip(t))
                       ELSE <<Head(t)>> \o Collapse(Tail(t))
    IN  Collapse(RStrip(LStrip(text)))

\* preprocessor.py lines 31-42 (the "metadata" entry, which nothing reads, is left out)
preprocess(t, d) ==
    [stage |-> "PREPROCESSING", clean_title |-> clean_text(t),
     clean_description |-> clean_text(d)]

\* classifier.py line 314: the parameters of classify(cls, request) after cls
CLASSIFY_PARAMETERS == 1

\* runner.py lines 35-39, the call AIClassifier.classify(*args): Python binds the
\* arguments to the parameters before anything of classify runs, and classify is an
\* async def, so a call that binds returns a coroutine object
CallClassify(args) ==
    IF Len(args) # CLASSIFY_PARAMETERS
    THEN Raises("TypeError: AIClassifier.classify() takes " \o ToString(CLASSIFY_PARAMETERS + 1)
                \o " positional arguments but " \o ToString(Len(args) + 1) \o " were given")
    ELSE Returns([coroutine |-> "AIClassifier.classify"])

\* runner.py lines 42-46, the call of make_decision with what classify returned: past
\* the rule overrides make_decision calls ai_result.get, which a coroutine lacks
CallMakeDecision(rules, prep, ai) ==
    IF rules.decision \in {"REJECT", "ESCALATE"}
    THEN Returns(make_decision(rules, prep, ai))
    ELSE Raises("AttributeError: 'coroutine' object has no attribute 'get'")

\* runner.py lines 13-56, ModerationPipeline.process_issue
process_issue(issue_data) ==
    LET prep_result == preprocess(issue_data.title, issue_data.description)
        rules == run_all_checks(prep_result.clean_title, prep_result.clean_description)
        ai == CallClassify(<<prep_result.clean_title, prep_result.clean_description,
                             issue_data.images>>)
        decision == CallMakeDecision(rules, prep_result, ai.value)
    IN  IF ~ai.ok THEN Raises(ai.error)
        ELSE IF ~decision.ok THEN Raises(decision.error)
        ELSE Returns([issue_id |-> issue_data.id, pipeline_version |-> "1.0",
                      results |-> [rules |-> rules, ai |-> ai.value,
                                   decision |-> decision.value]])

\* moderation_worker.py lines 95-97: what the task returns when something raised
TaskError(e, id) == [error |-> e, issue_id |-> id]

\* moderation_worker.py lines 13-100, moderate_issue_task; rows is the issues table
moderate_issue_task(id, rows) ==
    IF id \notin DOMAIN rows THEN TaskError("Issue not found", id)
    ELSE LET issue == rows[id]
             pipeline == process_issue([id |-> id, title |-> issue.title,
                                        description |-> issue.description,
                                        images |-> issue.images])
         IN  IF ~pipeline.ok THEN TaskError(pipeline.error, id)
             \* lines 78-83 read decision["final_status"], a key make_decision never sets
             ELSE TaskError("'final_status'", id)

\* the most words of a stored description
MaxRawWords == 2

\* the rows of the issues table: one issue with at most one image, its title and
\* description as a user types them, with blanks around them and two blanks between
\* the words of the description
Issues ==
    LET RECURSIVE Untidy(_)
        Untidy(text) ==
            IF text = <<>> THEN <<" ">>
            ELSE IF Head(text) = " " THEN <<" ", " ">> \o Untidy(Tail(text))
            ELSE <<Head(text)>> \o Untidy(Tail(text))
        Words == UNION {[1 .. n -> Vocabulary] : n \in 0 .. MaxRawWords}
    IN  {[title |-> t, description |-> Untidy(JoinWords(ws)), images |-> im] :
            t \in {<<>>, <<" ", "r", "o", "a", "d">>},
            ws \in Words,
            im \in ImageLists(0) \cup ImageLists(1)}

NotRun == [ok |-> FALSE, value |-> <<>>, error |-> "not run"]

WorkerIdle ==
    /\ issue_id = "none"
    /\ issues = <<>>
    /\ ran = {}
    /\ pipeline_result = NotRun
    /\ task_result = TaskError("not run", "none")

\* an issues table with one row, and a task for that issue or for one that is not stored
InitWorker ==
    /\ issue_id \in {"issue-1", "issue-2"}
    /\ \E row \in Issues : issues = [i \in {"issue-1"} |-> row]
    /\ ran = {}
    /\ pipeline_result = NotRun
    /\ task_result = TaskError("not run", "none")

\* a caller runs ModerationPipeline.process_issue on a stored issue
ProcessIssue ==
    /\ "process_issue" \notin ran
    /\ issue_id \in DOMAIN issues
    /\ pipeline_result' =
           process_issue([id |-> issue_id, title |-> issues[issue_id].title,
                          description |-> issues[issue_id].description,
                          images |-> issues[issue_id].images])
    /\ ran' = ran \cup {"process_issue"}
    /\ UNCHANGED <<issue_id, issues, task_result>>
    /\ UNCHANGED <<hookVars, tierVars, decisionVars, classifyVars, storeVars>>

\* Celery runs moderate_issue_task(issue_id)
ModerateIssueTask ==
    /\ "moderate_issue_task" \notin ran
    /\ task_result' = moderate_issue_task(issue_id, issues)
    /\ ran' = ran \cup {"moderate_issue_task"}
    /\ UNCHANGED <<issue_id, issues, pipeline_result>>
    /\ UNCHANGED <<hookVars, tierVars, decisionVars, classifyVars, storeVars>>

----------------------------------------------------------------------------
(* vector_service.py: VectorService and the Qdrant server it talks to.  A collection *)
(* is [exists, size, indexed, points]; a point is [id, vector, payload] and its      *)
(* payload a dict: a function on the keys it has.  An embedding is [dim, dir], its   *)
(* length and its direction.  Timestamps are hours.  A VectorService call is a frame *)
(* [op, pc, the arguments, the locals, result]; Request runs it up to its next       *)
(* request to the server, and a call nobody interleaves with is Run.                 *)

\* line 21, with settings.py line 19, and line 22
TEXT_COLLECTION == "issue_embeddings"
IMAGE_COLLECTION == "image_embeddings"
\* lines 25 and 26
TEXT_EMBEDDING_DIM == 384
IMAGE_EMBEDDING_DIM == 512

\* a collection the server does not have
NoCollection == [exists |-> FALSE, size |-> 0, indexed |-> FALSE, points |-> {}]

\* Distance.COSINE, line 83: the similarity of two directions, in hundredths; v, w and
\* x are three unit vectors at these angles to each other
Cosine(a, b) ==
    IF a = b THEN 100
    ELSE CASE {a, b} = {"v", "w"} -> 90
           [] {a, b} = {"v", "x"} -> 75
           [] {a, b} = {"w", "x"} -> 74

NoCall ==
    [op |-> "none", pc |-> "done", collection_name |-> TEXT_COLLECTION,
     issue_id |-> "None", embedding |-> [dim |-> 0, dir |-> "v"], metadata |-> <<>>,
     dimension |-> 0, human_decision |-> "None", moderator_notes |-> "None",
     limit |-> 0, point |-> [id |-> -1, payload |-> <<>>], result |-> "None",
     hits |-> <<>>]

\* lines 63-64: initialize_collection(collection_name, dimension)
InitializeCall(collection_name, dimension) ==
    [NoCall EXCEPT !.op = "initialize_collection", !.pc = "get_collections",
                   !.collection_name = collection_name, !.dimension = dimension]

\* lines 120-145: upsert_embedding(issue_id, embedding, metadata, collection_name),
\* which starts with initialize_collection(collection_name, len(embedding))
UpsertCall(id, embedding, metadata, collection_name) ==
    [NoCall EXCEPT !.op = "upsert_embedding", !.pc = "get_collections",
                   !.collection_name = collection_name, !.issue_id = id,
                   !.embedding = embedding, !.metadata = metadata,
                   !.dimension = embedding.dim]

\* lines 374-381: update_human_decision(issue_id, human_decision, moderator_notes)
FeedbackCall(id, human_decision, moderator_notes) ==
    [NoCall EXCEPT !.op = "update_human_decision", !.pc = "scroll",
                   !.issue_id = id, !.human_decision = human_decision,
                   !.moderator_notes = moderator_notes]

\* a variant of lines 418-425 that builds the payload from the new fields alone
UpdatedPayloadAlone(payload, human_decision, moderator_notes, now) ==
    LET updated_payload ==
            ("human_decision" :> human_decision) @@ ("human_reviewed_at" :> now)
    IN  IF moderator_notes \notin {"None", ""}
        THEN ("moderator_notes" :> moderator_notes) @@ updated_payload
        ELSE updated_payload

\* lines 418-425: updated_payload; a later key of a dict display replaces an earlier one
UpdatedPayload(payload, human_decision, moderator_notes, now) ==
    LET updated_payload ==
            ("human_decision" :> human_decision) @@ ("human_reviewed_at" :> now)
            @@ payload
    IN  IF moderator_notes \notin {"None", ""}
        THEN ("moderator_notes" :> moderator_notes) @@ updated_payload
        ELSE updated_payload

\* the points of a collection a scroll with the filter Matches returns: those that
\* match, by ascending point id, limit of them at most
Scroll(points, Matches(_), limit) ==
    LET ids == {p.id : p \in {m \in points : Matches(m)}}
        Place(i) == Cardinality({j \in ids : j < i})
        PointOf(i) == CHOOSE p \in points : p.id = i
    IN  [n \in 1 .. Min(limit, Cardinality(ids)) |->
            PointOf(CHOOSE i \in ids : Place(i) = n - 1)]

\* a variant of lines 76-78 that does not look whether the collection exists
AfterCheckAlwaysCreate(c) == "create_collection"

\* lines 76-78: what initialize_collection does next for the collection c it asked for
AfterCheck(c) == IF c.exists THEN "ensure_index" ELSE "create_collection"

\* the call f runs up to and with its next request to the server q; now is
\* datetime.utcnow() and uuid what uuid.uuid4() returns.  initialize_collection is
\* lines 72-111, the rest of upsert_embedding lines 147-169, update_human_decision
\* lines 393-439
Request(q, f, now, uuid) ==
    LET name == f.collection_name
        c == q[name]
        \* lines 109-111 raise again, and inside upsert_embedding lines 167-169 and
        \* in update_human_decision lines 437-439 return False
        Raised == [f EXCEPT !.pc = "done",
                            !.result = IF f.op = "initialize_collection"
                                       THEN "raises" ELSE "False"]
        \* initialize_collection returns: line 145 is done
        Initialized == IF f.op = "upsert_embedding" THEN [f EXCEPT !.pc = "upsert"]
                       ELSE [f EXCEPT !.pc = "done", !.result = "None"]
    IN
    CASE f.pc = "get_collections" ->
            \* lines 75-78
            [q |-> q,
             f |-> [f EXCEPT !.pc = AfterCheck(c)]]
      [] f.pc = "create_collection" ->
            \* lines 79-86; the server refuses to create a collection it has
            IF c.exists THEN [q |-> q, f |-> Raised]
            ELSE [q |-> [q EXCEPT ![name] = [exists |-> TRUE, size |-> f.dimension,
                                             indexed |-> FALSE, points |-> {}]],
                  f |-> [f EXCEPT !.pc = "create_index"]]
      [] f.pc = "create_index" ->
            \* lines 89-94
            [q |-> [q EXCEPT ![name].indexed = TRUE], f |-> Initialized]
      [] f.pc = "ensure_index" ->
            \* lines 98-107
            [q |-> [q EXCEPT ![name].indexed = TRUE], f |-> Initialized]
      [] f.pc = "upsert" ->
            \* lines 148-165; the server refuses a vector that has not the size of
            \* the collection.  The metadata come last in the payload
            IF ~c.exists \/ f.embedding.dim # c.size THEN [q |-> q, f |-> Raised]
            ELSE LET point ==
                         [id |-> uuid, vector |-> f.embedding,
                          payload |-> f.metadata
                                      @@ ("issue_id" :> f.issue_id)
                                      @@ ("timestamp" :> now)]
                 IN  [q |-> [q EXCEPT ![name].points = @ \cup {point}],
                      f |-> [f EXCEPT !.pc = "done", !.result = "True",
                                      !.point = [id |-> uuid,
                                                 payload |-> point.payload]]]
      [] f.pc = "scroll" ->
            \* lines 397-415
            LET Found(p) == /\ "issue_id" \in DOMAIN p.payload
                            /\ p.payload["issue_id"] = f.issue_id
                points == Scroll(c.points, Found, 1)
            IN  IF ~c.exists THEN [q |-> q, f |-> Raised]
                ELSE IF points = <<>>
                THEN [q |-> q, f |-> [f EXCEPT !.pc = "done", !.result = "False"]]
                ELSE [q |-> q,
                      f |-> [f EXCEPT !.pc = "overwrite_payload",
                                      !.point = [id |-> points[1].id,
                                                 payload |-> points[1].payload]]]
      [] f.pc = "overwrite_payload" ->
            \* lines 418-435
            LET updated_payload ==
                    UpdatedPayload(f.point.payload, f.human_decision,
                                   f.moderator_notes, now)
                Overwritten(p) == IF p.id = f.point.id
                                  THEN [p EXCEPT !.payload = updated_payload]
                                  ELSE p
            IN  [q |-> [q EXCEPT ![name].points = {Overwritten(p) : p \in @}],
                 f |-> [f EXCEPT !.pc = "done", !.result = "True"]]

\* a call no other call interleaves with: its requests one after the other
RECURSIVE Run(_, _, _, _)
Run(q, f, now, uuid) ==
    IF f.pc = "done" THEN [q |-> q, f |-> f]
    ELSE LET r == Request(q, f, now, uuid) IN Run(r.q, r.f, now, uuid)

\* lines 242-248, client.search: what the server holds for a query, the most similar
\* first (equally similar points by point id), for find_similar to take the hits
\* from.  The server refuses a collection it has not and a query vector that has not
\* the size of the collection
Searched(q, collection_name, embedding, now) ==
    LET c == q[collection_name]
        Score(p) == Cosine(embedding.dir, p.vector.dir)
        Before(p, r) == \/ Score(p) > Score(r)
                        \/ Score(p) = Score(r) /\ p.id < r.id
        Place(p) == Cardinality({r \in c.points : Before(r, p)})
        Hit(p) == [issue_id |-> Get(p.payload, "issue_id", "None"),
                   similarity_score |-> Score(p),
                   ai_decision |-> Get(p.payload, "ai_decision", "None"),
                   human_decision |-> Get(p.payload, "human_decision", "None"),
                   age_hours |-> now - p.payload["timestamp"]]
    IN  IF ~c.exists \/ embedding.dim # c.size
        THEN [state |-> "search_raises", records |-> <<>>]
        ELSE [state |-> "up",
              records |-> [n \in 1 .. Cardinality(c.points) |->
                              Hit(CHOOSE p \in c.points : Place(p) = n - 1)]]

\* lines 441-496, get_pending_reviews(limit, collection_name); point is the point an
\* item was made from (observation only)
get_pending_reviews(q, limit, collection_name) ==
    LET c == q[collection_name]
        Is(p, key, value) == key \in DOMAIN p.payload /\ p.payload[key] = value
        Pending(p) == /\ Is(p, "ai_decision", "YELLOW")
                      /\ ~Is(p, "human_decision", "APPROVE")
                      /\ ~Is(p, "human_decision", "REJECT")
        results == Scroll(c.points, Pending, limit)
    IN  IF ~c.exists THEN <<>>
        ELSE [n \in 1 .. Len(results) |->
                 [issue_id |-> Get(results[n].payload, "issue_id", "None"),
                  title |-> Get(results[n].payload, "title", ""),
                  ai_decision |-> Get(results[n].payload, "ai_decision", "None"),
                  timestamp |-> Get(results[n].payload, "timestamp", 0),
                  point |-> results[n].id]]

----------------------------------------------------------------------------
(* The callers of VectorService and what they pass *)

\* the point ids uuid.uuid4() can return, in the order the server scrolls them
PointIds == {1, 2}
\* the hours that pass between two looks at the clock, and how often they pass
TickHours == 25
MaxTicks == 1
\* the largest limit of get_pending_reviews
MaxLimit == 2

CollectionNames == {TEXT_COLLECTION, IMAGE_COLLECTION}

\* the callers whose calls can interleave
Callers == {1, 2}

\* moderation_worker.py lines 54-64 and vector_service.py lines 172-197: the issues
\* stored.  Issue A's text embeds to the direction v and issue B's to w; the tier
\* the worker stores is the decision engine's final_decision.  S is an embedding of
\* the wrong length, and issue A's image is stored with a CLIP embedding or with a
\* text embedding
Upserts ==
    LET Text(dir) == [dim |-> TEXT_EMBEDDING_DIM, dir |-> dir]
        Meta(tier) == [title |-> "pothole", ai_decision |-> tier]
        Image(tier) == [image_url |-> "a.png", ai_decision |-> tier]
    IN  {UpsertCall("A", Text("v"), Meta("YELLOW"), TEXT_COLLECTION),
         UpsertCall("B", Text("w"), Meta("ESCALATE"), TEXT_COLLECTION),
         UpsertCall("S", [dim |-> 3, dir |-> "v"], Meta("YELLOW"), TEXT_COLLECTION),
         UpsertCall("A", [dim |-> IMAGE_EMBEDDING_DIM, dir |-> "v"], Image("RED"),
                    IMAGE_COLLECTION),
         UpsertCall("A", Text("v"), Image("RED"), IMAGE_COLLECTION)}

\* dashboard.py lines 113-125: the reviews moderators submit for these issues
Feedbacks(issue_ids, notes) ==
    {FeedbackCall(i, d, n) : i \in issue_ids, d \in {"APPROVE", "REJECT"}, n \in notes}

\* the query vectors: the directions v, w and x as text embeddings
Queries == {[dim |-> TEXT_EMBEDDING_DIM, dir |-> d] : d \in {"v", "w", "x"}}

EmptyQdrant == [n \in CollectionNames |-> NoCollection]

\* the ids uuid.uuid4() has not returned yet
Uuids == PointIds \ UNION {{p.id : p \in qdrant[n].points} : n \in CollectionNames}

StoreIdle ==
    /\ qdrant = EmptyQdrant
    /\ clock = 0
    /\ calls = [p \in Callers |-> NoCall]
    /\ store_ret = NoCall

\* a caller runs the call f to its end, alone
Call(f, uuid) ==
    LET r == Run(qdrant, f, clock, uuid) IN
    /\ qdrant' = r.q
    /\ store_ret' = r.f
    /\ UNCHANGED <<clock, calls>>
    /\ UNCHANGED <<hookVars, tierVars, decisionVars, classifyVars, workerVars>>

\* a query returned hits
Answer(name, embedding, id, limit, hits) ==
    /\ store_ret' = [NoCall EXCEPT !.op = name, !.embedding = embedding,
                                   !.issue_id = id, !.limit = limit,
                                   !.hits = hits]
    /\ UNCHANGED <<qdrant, clock, calls>>
    /\ UNCHANGED <<hookVars, tierVars, decisionVars, classifyVars, workerVars>>

\* time passes
Tick ==
    /\ clock < TickHours * MaxTicks
    /\ clock' = clock + TickHours
    /\ UNCHANGED <<qdrant, calls, store_ret>>
    /\ UNCHANGED <<hookVars, tierVars, decisionVars, classifyVars, workerVars>>

\* lines 113-117, initialize_all_collections: its two calls of initialize_collection
InitializeCollection ==
    \E f \in {InitializeCall(TEXT_COLLECTION, TEXT_EMBEDDING_DIM),
               InitializeCall(IMAGE_COLLECTION, IMAGE_EMBEDDING_DIM)} : Call(f, 0)

UpsertEmbedding == \E f \in Upserts, uuid \in Uuids : Call(f, uuid)

UpdateHumanDecision ==
    \E f \in Feedbacks({"A", "B", "Z"}, {"None", "policy violation"}) : Call(f, 0)

GetPendingReviews ==
    \E limit \in 1 .. MaxLimit :
        Answer("get_pending_reviews", NoCall.embedding, "None", limit,
               get_pending_reviews(qdrant, limit, TEXT_COLLECTION))

\* classifier.py lines 284-288
DetectDuplicates ==
    \E e \in Queries :
        LET duplicate == detect_duplicates(Searched(qdrant, TEXT_COLLECTION, e, clock),
                                           DUPLICATE_THRESHOLD, DUPLICATE_WINDOW).value
        IN  Answer("detect_duplicates", e, "None", 1,
                   IF duplicate = None THEN <<>> ELSE <<duplicate>>)

\* classifier.py lines 302-305
GetSimilarDecisions ==
    \E e \in Queries :
        Answer("get_similar_decisions", e, "None", SIMILAR_LIMIT,
               get_similar_decisions(Searched(qdrant, TEXT_COLLECTION, e, clock),
                                     SIMILAR_LIMIT).value)

\* classifier.py lines 421-440: classify_full for the post of an issue, its text
\* embedded as when the issue was stored; the hits are the duplicate, if any, and
\* then the similar cases
ClassifyStored ==
    \E f \in {u \in Upserts : u.collection_name = TEXT_COLLECTION
                              /\ u.embedding.dim = TEXT_EMBEDDING_DIM} :
        LET result == classify_full([post_id |-> f.issue_id, text |-> "ok",
                                     images |-> <<>>, videos |-> <<>>,
                                     store |-> Searched(qdrant, TEXT_COLLECTION,
                                                        f.embedding, clock)])
        IN  Answer("classify_full", f.embedding, f.issue_id, SIMILAR_LIMIT,
                   (IF result.duplicate_detected THEN <<result.duplicate_info>>
                    ELSE <<>>) \o result.similar_cases)

\* two callers, each with one call; both calls have begun before the first request
\* is sent, and their requests interleave
BeginCall(p) ==
    /\ calls[p] = NoCall
    /\ \E f \in {u \in Upserts : u.collection_name = TEXT_COLLECTION}
                \cup Feedbacks({"A"}, {"None", "spam", "fine"}) :
           /\ f.op = "upsert_embedding" =>
                  Cardinality({c \in Callers : calls[c].op = f.op /\ calls[c].pc # "done"})
                      < Cardinality(Uuids)
           /\ calls' = [calls EXCEPT ![p] = f]
    /\ UNCHANGED <<qdrant, clock, store_ret>>
    /\ UNCHANGED <<hookVars, tierVars, decisionVars, classifyVars, workerVars>>

SendRequest(p) ==
    /\ \A c \in Callers : calls[c] # NoCall
    /\ calls[p].pc # "done"
    /\ \E uuid \in IF calls[p].pc = "upsert" THEN Uuids ELSE {0} :
           LET r == Request(qdrant, calls[p], clock, uuid) IN
           /\ qdrant' = r.q
           /\ calls' = [calls EXCEPT ![p] = r.f]
           /\ store_ret' = IF r.f.pc = "done" THEN r.f ELSE store_ret
    /\ UNCHANGED clock
    /\ UNCHANGED <<hookVars, tierVars, decisionVars, classifyVars, workerVars>>

\* the server before the first call, or as the worker left it after it stored issue A
\* (as the point 0)
InitRace ==
    /\ qdrant \in {EmptyQdrant,
                   Run(EmptyQdrant,
                       CHOOSE u \in Upserts : u.issue_id = "A"
                                              /\ u.collection_name = TEXT_COLLECTION
                                              /\ u.embedding.dim = TEXT_EMBEDDING_DIM,
                       0, 0).q}
    /\ clock = 0
    /\ calls = [p \in Callers |-> NoCall]
    /\ store_ret = NoCall

----------------------------------------------------------------------------
(* The specifications: the webhook service; the tier function; the decision engine; *)
(* the rule engine; the classifier; the pipeline and its worker; the vector store   *)
(* with one caller and with two.  Each leaves the variables of the others as they   *)
(* start.                                                                           *)

HookIdle ==
    /\ lists = [i \in ListIds |-> <<>>]
    /\ pending_deliveries = 0
    /\ settings_url = "None"
    /\ pc = [t \in Tasks |-> "idle"]
    /\ op = [t \in Tasks |-> "none"]
    /\ sw = [t \in Tasks |-> NoFrame]
    /\ rp = [t \in Tasks |-> NoRetry]
    /\ hist = [t \in Tasks |-> NoHist]
    /\ ret = NoRet
    /\ nfail = 0
    /\ nother = 0
    /\ handed = {}
    /\ delivered = {}

DecisionIdle ==
    /\ title = <<>>
    /\ description = <<>>
    /\ rules_result = NoRules
    /\ ai_result = <<>>
    /\ decision_result = NoDecision
    /\ stage = "new"

Init == InitHook /\ InitTier /\ DecisionIdle /\ ClassifyIdle /\ WorkerIdle /\ StoreIdle

InitTierSpec == HookIdle /\ InitTier /\ DecisionIdle /\ ClassifyIdle /\ WorkerIdle /\ StoreIdle

InitDecisionSpec == HookIdle /\ InitTier /\ InitDecision /\ ClassifyIdle /\ WorkerIdle /\ StoreIdle

InitRulesSpec == HookIdle /\ InitTier /\ InitRules /\ ClassifyIdle /\ WorkerIdle /\ StoreIdle

InitClassifySpec == HookIdle /\ InitTier /\ DecisionIdle /\ InitClassify /\ WorkerIdle /\ StoreIdle

Next ==
    \/ \E t \in Tasks, u \in Urls : Deliver(t, u)
    \/ \E t \in Tasks : Notify(t)
    \/ \E t \in Tasks : RetryPending(t)
    \/ \E t \in Tasks, c \in StatusCodes : PostResponse(t, c)
    \/ \E t \in Tasks : PostTimeout(t)
    \/ \E t \in Tasks : PostConnectError(t)
    \/ \E t \in Tasks : PostException(t)
    \/ \E t \in Tasks : CloseFail(t)

Spec == Init /\ [][Next]_vars

NextTier == \E s \in Scores : ScoreToDecision(s)

SpecTier == InitTierSpec /\ [][NextTier]_vars

NextDecision ==
    \/ RunAllChecks
    \/ \E a \in AiResults : MakeDecision(a)
    \/ \E r \in LegacyRequests : MakeDecision(classify_legacy(r))

SpecDecision == InitDecisionSpec /\ [][NextDecision]_vars

NextRules == RunAllChecks

SpecRules == InitRulesSpec /\ [][NextRules]_vars

InitWorkerSpec == HookIdle /\ InitTier /\ DecisionIdle /\ ClassifyIdle /\ InitWorker /\ StoreIdle

NextClassify == ClassifyFull

SpecClassify == InitClassifySpec /\ [][NextClassify]_vars

NextWorker ==
    \/ ProcessIssue
    \/ ModerateIssueTask

SpecWorker == InitWorkerSpec /\ [][NextWorker]_vars

InitStoreSpec ==
    HookIdle /\ InitTier /\ DecisionIdle /\ ClassifyIdle /\ WorkerIdle /\ StoreIdle

NextStore ==
    \/ Tick
    \/ InitializeCollection
    \/ UpsertEmbedding
    \/ UpdateHumanDecision
    \/ GetPendingReviews

SpecStore == InitStoreSpec /\ [][NextStore]_vars

NextSearch ==
    \/ Tick
    \/ UpsertEmbedding
    \/ DetectDuplicates
    \/ GetSimilarDecisions
    \/ ClassifyStored

\* the server before the first call, or as the worker left it after it stored the
\* issues A and B (as the points 0 and 3)
InitSearch ==
    /\ qdrant \in {EmptyQdrant,
                   LET Stored(id) == CHOOSE u \in Upserts :
                                         /\ u.issue_id = id
                                         /\ u.collection_name = TEXT_COLLECTION
                                         /\ u.embedding.dim = TEXT_EMBEDDING_DIM
                   IN  Run(Run(EmptyQdrant, Stored("A"), 0, 0).q, Stored("B"), 0, 3).q}
    /\ clock = 0
    /\ calls = [p \in Callers |-> NoCall]
    /\ store_ret = NoCall

InitSearchSpec ==
    HookIdle /\ InitTier /\ DecisionIdle /\ ClassifyIdle /\ WorkerIdle /\ InitSearch

SpecSearch == InitSearchSpec /\ [][NextSearch]_vars

InitRaceSpec ==
    HookIdle /\ InitTier /\ DecisionIdle /\ ClassifyIdle /\ WorkerIdle /\ InitRace

NextRace == \E p \in Callers : BeginCall(p) \/ SendRequest(p)

SpecRace == InitRaceSpec /\ [][NextRace]_vars

----------------------------------------------------------------------------
(* Properties of the webhook service *)

\* last_error as send_webhook words it for the way a POST ended
ErrorOf(outcome) ==
    CASE outcome.kind = "response" -> [kind |-> "http", code |-> outcome.code]
      [] outcome.kind = "timeout" -> [kind |-> "Request timeout", code |-> 0]
      [] outcome.kind = "connect" -> [kind |-> "Connection refused", code |-> 0]
      [] OTHER -> [kind |-> "exception", code |-> 0]

\* task t runs a send_webhook call made by a caller of the service (not by the retry loop)
Direct(t) == Busy(t) /\ op[t] \in {"deliver", "notify"}

\* C2: a send_webhook call whose attempts all fail (timeout, refused connection, other
\* exception, status code outside the success codes) issues exactly 3 POSTs and then
\* returns success=False, attempts=3 and the error of the third attempt; the step in
\* which it returns appends exactly one entry with its url and payload to the list
\* _pending_deliveries is bound to, and changes no other list.
C2_Step ==
    \A t \in Tasks :
        /\ (/\ Direct(t)
            /\ Len(hist[t].outcomes) = 3
            /\ \A i \in 1 .. 3 : ~HealthyAnswer(hist[t].outcomes[i]))
           => (pc[t] = "close_fail" /\ hist[t].posts = 3)
        /\ (Direct(t) /\ pc'[t] = "idle" /\ ~ret'.success)
           => /\ ret'.posts = 3
              /\ ret'.attempts = 3
              /\ Len(ret'.outcomes) = 3
              /\ \A i \in 1 .. 3 : ~HealthyAnswer(ret'.outcomes[i])
              /\ ret'.error = ErrorOf(ret'.outcomes[3])
              /\ pending_deliveries' = pending_deliveries
              /\ lists' = [lists EXCEPT ![pending_deliveries] =
                              Append(@, [url |-> sw[t].url, payload |-> sw[t].payload,
                                         error |-> ret'.error])]

C2_ExhaustedDelivery == [][C2_Step]_vars

C2_Witness ==
    /\ ret.op = "deliver" /\ ~ret.success /\ ret.attempts = 3
    /\ ret.outcomes[1].kind = "connect" /\ ret.outcomes[3].kind = "timeout"
    /\ lists[pending_deliveries] =
           <<[url |-> "u2", payload |-> "a", error |-> [kind |-> "Request timeout", code |-> 0]]>>

\* every entry of s is one of the entries of start (compared by url and payload)
Among(s, start) == \A i \in 1 .. Len(s) : Key(s[i]) \in Keys(start)

\* C3: a retry_pending_deliveries call that no other call overlaps re-attempts each
\* entry the list held when it started exactly once: retried is the number of entries
\* at the start, success + failed = retried, and the list it leaves holds exactly the
\* entries whose re-attempt failed, each once.
C3_RetryOnce ==
    (ret.op = "retry" /\ ret.alone /\ Len(ret.startList) >= 1)
    => /\ ret.retried = Len(ret.startList)
       /\ ret.nsuccess + ret.failed = ret.retried
       /\ lists[pending_deliveries] = ret.pending
       /\ Len(ret.pending) = ret.failed
       /\ Among(ret.pending, ret.startList)
       /\ \A i, j \in 1 .. Len(ret.pending) : i # j => Key(ret.pending[i]) # Key(ret.pending[j])

C4_HealthyRetry ==
    (ret.op = "retry" /\ ret.alone /\ Len(ret.startList) >= 1 /\ ~ret.unhealthy)
    => /\ lists[pending_deliveries] = <<>>
       /\ ret.nsuccess = Len(ret.startList)
       /\ ret.failed = 0
       /\ ret.retried = Len(ret.startList)

C4_Witness ==
    /\ ret.op = "retry" /\ ret.alone /\ ~ret.unhealthy
    /\ Len(ret.startList) = 2 /\ ret.nsuccess = 2
    /\ lists[pending_deliveries] = <<>>

\* some running call still holds the delivery k: a send_webhook call posting it, or a
\* retry_pending_deliveries call with it in the list it iterates or in its remaining list
InFlight(k) ==
    \E t \in Tasks :
        /\ Busy(t)
        /\ \/ Key(sw[t]) = k
           \/ op[t] = "retry" /\ (k \in Keys(rp[t].remaining) \/ k \in Keys(lists[rp[t].iter]))

\* C5 (its safety half): a payload handed to send_webhook is never dropped from both the
\* running calls and the pending list without having been POSTed successfully.
C5_NeverDropped ==
    \A k \in handed :
        k \in delivered \/ k \in Keys(lists[pending_deliveries]) \/ InFlight(k)

\* C6: in every step, an entry that enters the pending list belongs to a send_webhook
\* call that has exhausted its attempts (or is put back by the retry call whose
\* re-delivery of it failed), and an entry that leaves the pending list has been
\* POSTed successfully.
C6_Step ==
    /\ \A k \in Keys(lists'[pending_deliveries']) \ Keys(lists[pending_deliveries]) :
           \E t \in Tasks :
               \/ pc[t] = "close_fail" /\ hist[t].posts = 3 /\ Key(sw[t]) = k
               \/ Busy(t) /\ op[t] = "retry" /\ k \in Keys(lists[rp[t].iter])
    /\ \A k \in Keys(lists[pending_deliveries]) \ Keys(lists'[pending_deliveries']) :
           k \in delivered'

C6_CreatedAndRemoved == [][C6_Step]_vars

\* C7: a send_webhook call stops at the first attempt k in 1..3 answered with status
\* 200, 201, 202 or 204: it returns success=True with attempts = k after exactly k POSTs
\* and leaves every list as it is; an attempt that ends any other way (another status
\* code, other 2xx codes included) is followed by the next POST while k < 3.
C7_Step ==
    \A t \in Tasks :
        /\ (Direct(t) /\ pc'[t] = "idle" /\ ret'.success)
           => LET k == ret'.attempts IN
              /\ k \in 1 .. 3
              /\ ret'.posts = k
              /\ Len(ret'.outcomes) = k
              /\ ret'.outcomes[k].kind = "response"
              /\ ret'.outcomes[k].code \in {200, 201, 202, 204}
              /\ ret'.status_code = ret'.outcomes[k].code
              /\ \A i \in 1 .. k - 1 :
                    ~(ret'.outcomes[i].kind = "response"
                      /\ ret'.outcomes[i].code \in {200, 201, 202, 204})
              /\ lists' = lists
              /\ pending_deliveries' = pending_deliveries
        /\ (Direct(t) /\ Busy(t)' /\ hist'[t].outcomes # hist[t].outcomes)
           => LET k == hist[t].posts
                  o == hist'[t].outcomes[k] IN
              /\ pc[t] = "post"
              /\ hist'[t].outcomes = Append(hist[t].outcomes, o)
              /\ Len(hist'[t].outcomes) = k
              /\ ~(o.kind = "response" /\ o.code \in {200, 201, 202, 204})
              /\ IF k < 3
                 THEN pc'[t] = "post" /\ hist'[t].posts = k + 1
                 ELSE pc'[t] = "close_fail" /\ hist'[t].posts = 3

C7_StopsAtFirstSuccess == [][C7_Step]_vars

C7_Witness ==
    /\ ret.op = "deliver" /\ ret.success /\ ret.attempts = 2
    /\ ret.outcomes = <<[kind |-> "response", code |-> 203], [kind |-> "response", code |-> 200]>>
    /\ lists[pending_deliveries] = <<>>

\* the waits of a send_webhook call that has issued n POSTs: 1 second before the
\* second POST, 2 seconds before the third
Backoff(n) == SubSeq(<<1, 2>>, 1, n - 1)

\* C8: in a send_webhook call the wait before attempt 2 is 1 second and before attempt 3
\* is 2 seconds (each min(2 x the one before, 30)); every wait follows a failed attempt;
\* there is none after the third attempt nor after a successful one.
C8_Backoff ==
    /\ \A t \in Tasks :
           Busy(t) =>
               /\ hist[t].posts \in 1 .. 3
               /\ hist[t].waits = Backoff(hist[t].posts)
               /\ Len(hist[t].outcomes) >= Len(hist[t].waits)
               /\ \A i \in 1 .. Len(hist[t].waits) : ~HealthyAnswer(hist[t].outcomes[i])
    /\ ret.posts > 0 =>
           /\ ret.waits = Backoff(ret.posts)
           /\ \A i \in 1 .. Len(ret.waits) : ~HealthyAnswer(ret.outcomes[i])
           /\ \A i \in 2 .. Len(ret.waits) :
                  ret.waits[i] = IF 2 * ret.waits[i - 1] < 30 THEN 2 * ret.waits[i - 1] ELSE 30

C8_Witness ==
    /\ ret.op = "deliver" /\ ~ret.success /\ ret.posts = 3 /\ ret.waits = <<1, 2>>

\* C9: with no destination configured, notify_main_backend issues no POST, queues
\* nothing and returns success=False with attempts = 0.
C9_NotConfigured ==
    settings_url \in {"None", ""}
    => /\ \A t \in Tasks : op[t] # "notify"
       /\ \A k \in handed : k.url # settings_url
       /\ \A i \in ListIds : \A j \in 1 .. Len(lists[i]) : lists[i][j].url # settings_url
       /\ ret.op = "notify" => (~ret.success /\ ret.attempts = 0 /\ ret.posts = 0)

C9_Witness ==
    /\ settings_url = "None" /\ ret.op = "notify" /\ ~ret.success /\ ret.attempts = 0
    /\ lists[pending_deliveries] # <<>>

----------------------------------------------------------------------------
(* Properties of the moderation pipeline *)

\* the order of the tiers
Rank(d) == CASE d = "GREEN" -> 0 [] d = "YELLOW" -> 1 [] d = "RED" -> 2 [] OTHER -> -1

C10_RulesOverrideAi ==
    stage = "decided"
    => /\ rules_result.decision = "REJECT"
          => /\ decision_result.content_decision = "RED"
             /\ decision_result.final_decision = "REJECT"
             /\ decision_result.confidence = 100
             /\ decision_result.reason
                    = "Failed rule checks: " \o Join(", ", rules_result.flags)
       /\ rules_result.decision = "ESCALATE"
          => /\ decision_result.content_decision = "YELLOW"
             /\ decision_result.final_decision = "ESCALATE"
             /\ decision_result.confidence = 70
             /\ decision_result.reason = "Requires human review"
       /\ rules_result.decision \in {"REJECT", "ESCALATE"}
          => \A a \in AiResults :
                 make_decision(rules_result,
                               [clean_title |-> title, clean_description |-> description], a)
                     = decision_result

C10_Witness ==
    /\ stage = "decided"
    /\ rules_result.decision = "REJECT"
    /\ rules_result.flags = <<"TOO_SHORT", "BANNED_WORD_SPAM", "PHONE_NUMBER">>
    /\ ai_result = [k \in AiKeys |-> IF k = "toxicity" THEN 0 ELSE 100]
    /\ decision_result.reason = "Failed rule checks: TOO_SHORT, BANNED_WORD_SPAM, PHONE_NUMBER"

\* C11: when the rules decide neither REJECT nor ESCALATE, the tier make_decision returns
\* is the tier of the classifier's aggregated score (its "confidence", the largest of
\* its signals) under _score_to_decision, and the reason is the classifier's reason.
C11_TierOfAggregatedScore ==
    (/\ stage = "decided"
     /\ rules_result.decision \notin {"REJECT", "ESCALATE"}
     /\ "stage" \in DOMAIN ai_result)
    => /\ decision_result.content_decision = _score_to_decision(ai_result.confidence)
       /\ decision_result.reason = ai_result.reason

----------------------------------------------------------------------------
(* Properties of the rule engine *)

\* the largest number of a non-empty set
SetMax(S) == CHOOSE m \in S : \A x \in S : x <= m

\* the text run_all_checks hands to its four checks
CombinedText == title \o <<" ">> \o description

Checked == stage # "new"

InFlags(flag, flags) == \E i \in DOMAIN flags : flags[i] = flag

\* C12: run_all_checks decides REJECT iff the spam, phone or duplicate check decides
\* REJECT; otherwise ESCALATE iff the spam, profanity or duplicate check decides
\* ESCALATE; otherwise APPROVE; its score is the largest of the four scores; so the
\* profanity check alone, however many words it finds, never makes it REJECT.
C12_Precedence ==
    Checked
    => LET r == rules_result
           d == r.details
           rejected == \E x \in {d.spam, d.phone, d.duplicate} : x.decision = "REJECT"
           escalated == \E x \in {d.spam, d.profanity, d.duplicate} : x.decision = "ESCALATE"
       IN  /\ d.spam = check_spam(CombinedText)
           /\ d.profanity = check_profanity(CombinedText)
           /\ d.phone = check_phone_numbers(CombinedText)
           /\ d.duplicate = check_duplicate_content(CombinedText)
           /\ r.decision = "REJECT" <=> rejected
           /\ r.decision = "ESCALATE" <=> (~rejected /\ escalated)
           /\ r.decision = "APPROVE" <=> (~rejected /\ ~escalated)
           /\ r.score = SetMax({d.spam.score, d.profanity.score, d.phone.score,
                                d.duplicate.score})
           /\ (d.profanity.score > 0 /\ ~rejected) => r.decision # "REJECT"

C12_Witness ==
    /\ Checked
    /\ Len(rules_result.details.profanity.flags) = 3
    /\ rules_result.details.profanity.score = 90
    /\ rules_result.details.profanity.decision = "ESCALATE"
    /\ rules_result.details.spam.decision = "PASS"
    /\ rules_result.details.duplicate.decision = "PASS"
    /\ rules_result.score = 90
    /\ rules_result.decision = "ESCALATE"

\* ten or more digits in a row somewhere in the text
HasDigitRun(text) ==
    \E i \in 1 .. Len(text) - 9 : \A k \in 0 .. 9 : IsDigit(text[i + k])

\* C13: whenever title and description, joined, hold ten or more digits in a row
\* anywhere, next to letters or underscores included, the phone check returns score
\* 1.0, the flag PHONE_NUMBER and REJECT, and run_all_checks decides REJECT.
C13_DigitRunRejected ==
    (Checked /\ HasDigitRun(CombinedText))
    => /\ rules_result.details.phone
              = [score |-> 100, flags |-> <<"PHONE_NUMBER">>, decision |-> "REJECT"]
       /\ rules_result.decision = "REJECT"

SevenSpam == Str(CombinedText) = "SPAM SPAM SPAM SPAM SPAM SPAM SPAM"

\* the weight of an indicator of check_spam, by its flag
Weight(flag) ==
    CASE flag = "TOO_SHORT" -> 30
      [] flag = "ALL_CAPS" -> 40
      [] flag = "REPEATED_CHARS" -> 30
      [] flag = "EXCESSIVE_URLS" -> 40
      [] OTHER -> 50

RECURSIVE WeightSum(_)
WeightSum(flags) == IF flags = <<>> THEN 0 ELSE Weight(Head(flags)) + WeightSum(Tail(flags))

\* C14 as stated: for the text "SPAM SPAM SPAM SPAM SPAM SPAM SPAM" the rule engine
\* returns flags that include ALL_CAPS and BANNED_WORD_SPAM, a score of at least 0.8
\* and REJECT.
C14_SevenSpamRejected ==
    (Checked /\ SevenSpam)
    => /\ InFlags("ALL_CAPS", rules_result.flags)
       /\ InFlags("BANNED_WORD_SPAM", rules_result.flags)
       /\ rules_result.score >= 80
       /\ rules_result.decision = "REJECT"

\* C14, amended: for the text "SPAM SPAM SPAM SPAM SPAM SPAM SPAM" the rule engine
\* returns flags that include BANNED_WORD_SPAM and LOW_UNIQUENESS but not ALL_CAPS
\* (the text has 34 characters and ALL_CAPS needs more than 50), a score of at least
\* 0.8 and ESCALATE; for every text the spam score is the smaller of 1.0 and the sum of
\* the weights of the indicators flagged, and the spam check decides REJECT iff that
\* score is above 0.7.
C14_SevenSpamEscalated ==
    Checked
    => /\ SevenSpam
          => /\ InFlags("BANNED_WORD_SPAM", rules_result.flags)
             /\ InFlags("LOW_UNIQUENESS", rules_result.flags)
             /\ ~InFlags("ALL_CAPS", rules_result.flags)
             /\ rules_result.score >= 80
             /\ rules_result.decision = "ESCALATE"
       /\ LET spam == rules_result.details.spam IN
          /\ spam.score = Min(WeightSum(spam.flags), 100)
          /\ spam.decision = "REJECT" <=> spam.score > 70
          /\ spam.decision \in {"REJECT", "PASS"}

\* on a text of more than 50 characters the same words are flagged ALL_CAPS and rejected
C14_AllCapsReached ==
    /\ Checked
    /\ Len(CombinedText) > 50
    /\ rules_result.flags = <<"ALL_CAPS", "BANNED_WORD_SPAM", "LOW_UNIQUENESS">>
    /\ rules_result.details.spam.score = 90
    /\ rules_result.decision = "REJECT"

C14_Witness ==
    /\ Checked
    /\ SevenSpam
    /\ Str(title) = "SPAM"
    /\ rules_result.flags = <<"BANNED_WORD_SPAM", "LOW_UNIQUENESS">>
    /\ rules_result.details.spam.score = 50
    /\ rules_result.score = 80
    /\ rules_result.decision = "ESCALATE"

----------------------------------------------------------------------------
(* Properties of the classifier *)

Classified == classification # NoClassification

\* the scores of the items of a classification: the text, each image, each video
ItemScores(c) ==
    {c.text_analysis.score}
    \cup {c.image_analyses[i].score : i \in DOMAIN c.image_analyses}
    \cup {c.video_analyses[i].score : i \in DOMAIN c.video_analyses}

\* more than half of the similar cases of a classification were rejected by a moderator
Majority(c) ==
    2 * Cardinality({i \in DOMAIN c.similar_cases :
                        c.similar_cases[i].human_decision = "REJECT"})
        > Len(c.similar_cases)

\* the request with its images and videos reordered
Reordered(req, p, q) ==
    [req EXCEPT !.images = [i \in DOMAIN req.images |-> req.images[p[i]]],
                !.videos = [i \in DOMAIN req.videos |-> req.videos[q[i]]]]

\* C15: the final score of classify_full is the largest of the scores of the text, the
\* images and the videos, the similarity of the duplicate if there is one, and 0.6 if
\* moderators rejected most similar cases (0.0 when there is none of these); the final
\* tier is _score_to_decision of the final score; both are the same for every order of
\* the images and of the videos.
C15_MaxOfSignals ==
    Classified
    => LET c == classification
           pool == ItemScores(c)
                   \cup (IF c.duplicate_detected
                         THEN {c.duplicate_info.similarity_score} ELSE {})
                   \cup (IF Majority(c) THEN {60} ELSE {})
                   \cup {0}
       IN  /\ c.final_score = SetMax(pool)
           /\ c.final_decision = _score_to_decision(c.final_score)
           /\ \A p \in Permutations(DOMAIN request.images),
                 q \in Permutations(DOMAIN request.videos) :
                  LET d == classify_full(Reordered(request, p, q)) IN
                  /\ d.final_score = c.final_score
                  /\ d.final_decision = c.final_decision

C15_Witness ==
    /\ Classified
    /\ Len(classification.image_analyses) = 2
    /\ classification.image_analyses[1].score = 85
    /\ classification.image_analyses[2].score = 30
    /\ ~classification.duplicate_detected
    /\ classification.final_score = 85
    /\ classification.final_decision = "RED"

\* an image or video of the request whose NSFW scorer or embedder raises
ImageRaises(image) ==
    \/ image.analyzer = "raises"
    \/ image.detector.state = "raises"
    \/ image.embedder = "raises"

VideoRaises(video) ==
    \/ video.analyzer = "raises"
    \/ video.source = "raises"
    \/ \E i \in DOMAIN video.frames : video.frames[i].state = "raises"

\* C16: an image or video whose NSFW scorer or embedder raises gets the score 0.5 and
\* the tier YELLOW; the other items get what they get when they are analysed alone; and
\* classify_full still returns its result.
C16_FailedItemEscalates ==
    Classified
    => LET c == classification IN
       /\ c.post_id = request.post_id
       /\ Len(c.image_analyses) = Len(request.images)
       /\ Len(c.video_analyses) = Len(request.videos)
       /\ \A i \in DOMAIN request.images :
              IF ImageRaises(request.images[i])
              THEN c.image_analyses[i].score = 50 /\ c.image_analyses[i].decision = "YELLOW"
              ELSE c.image_analyses[i] = _analyze_image(request.images[i])
       /\ \A i \in DOMAIN request.videos :
              IF VideoRaises(request.videos[i])
              THEN c.video_analyses[i].score = 50 /\ c.video_analyses[i].decision = "YELLOW"
              ELSE c.video_analyses[i] = _analyze_video(request.videos[i])

\* every AnalysisResult of a classification: text, images, videos
Analyses(c) ==
    {c.text_analysis}
    \cup {c.image_analyses[i] : i \in DOMAIN c.image_analyses}
    \cup {c.video_analyses[i] : i \in DOMAIN c.video_analyses}

\* C17: every AnalysisResult classify_full returns, the ones of failed items included,
\* has the tier _score_to_decision gives its score.
C17_TierMatchesScore ==
    Classified
    => \A a \in Analyses(classification) : a.decision = _score_to_decision(a.score)

RagReason(c) ==
    "Similar past cases rejected by moderators ("
    \o ToString(Cardinality({i \in DOMAIN c.similar_cases :
                                c.similar_cases[i].human_decision = "REJECT"}))
    \o "/" \o ToString(Len(c.similar_cases)) \o ")"

\* C19: classify_full looks at no more than 3 similar cases and adds the score 0.6,
\* with its reason, exactly when strictly more than half of them have the human
\* decision REJECT; when 0.6 is the largest score the final tier is YELLOW; cases
\* that only the classifier rejected never add it.
C19_RagBias ==
    Classified
    => LET c == classification
           biased == \E i \in DOMAIN c.reasons : c.reasons[i] = RagReason(c)
           signals == Len(c.all_scores) - (IF c.text_analysis.decision # "GREEN" THEN 1 ELSE 0)
                      - Len(c.image_analyses) - Len(c.video_analyses)
                      - (IF c.duplicate_detected THEN 1 ELSE 0)
       IN  /\ Len(c.similar_cases) <= 3
           /\ biased <=> Majority(c)
           /\ signals = (IF Majority(c) THEN 1 ELSE 0)
           /\ Majority(c) => c.all_scores[Len(c.all_scores)] = 60
           /\ (Majority(c) /\ c.final_score = 60) => c.final_decision = "YELLOW"
           /\ (\A i \in DOMAIN c.similar_cases : c.similar_cases[i].human_decision # "REJECT")
              => ~biased

C19_Witness ==
    /\ Classified
    /\ Len(classification.similar_cases) = 3
    /\ classification.similar_cases[3].human_decision = "None"
    /\ classification.similar_cases[3].ai_decision = "REJECT"
    /\ Majority(classification)
    /\ classification.final_score = 60
    /\ classification.final_decision = "YELLOW"

----------------------------------------------------------------------------
(* Properties of the pipeline *)

\* a complete decision: tier, confidence, reason and moderation score
Complete(d) ==
    /\ {"content_decision", "final_decision", "confidence", "reason", "moderation_score"}
           \subseteq DOMAIN d
    /\ d.content_decision \in {"GREEN", "YELLOW", "RED"}

\* C20: process_issue returns a complete decision for every issue, whatever the scorers,
\* the embedder and the vector store do, and raises nothing; a run of the worker's task
\* on a stored issue ends with that decision.
C20_AlwaysADecision ==
    /\ "process_issue" \in ran
       => /\ pipeline_result.ok
          /\ Complete(pipeline_result.value.results.decision)
    /\ ("moderate_issue_task" \in ran /\ issue_id \in DOMAIN issues)
       => /\ "error" \notin DOMAIN task_result
          /\ "decision" \in DOMAIN task_result

----------------------------------------------------------------------------
(* Properties of the vector store *)

\* the points a collection holds whose payload names the issue
PointsOf(q, name, id) ==
    {p \in q[name].points : Get(p.payload, "issue_id", "None") = id}

\* the payload keys update_human_decision is to write
FeedbackKeys == {"human_decision", "moderator_notes", "human_reviewed_at"}

\* the point r is the point p but for the payload keys update_human_decision writes
SameButFeedback(p, r) ==
    /\ r.id = p.id
    /\ r.vector = p.vector
    /\ DOMAIN p.payload \ FeedbackKeys = DOMAIN r.payload \ FeedbackKeys
    /\ \A k \in DOMAIN p.payload \ FeedbackKeys : r.payload[k] = p.payload[k]

\* C21: a call of update_human_decision nobody interleaves with changes, of one point
\* whose payload names the issue, human_decision (to the decision given),
\* human_reviewed_at (to the time of the call) and at most moderator_notes, and nothing
\* else: the point keeps its id, its vector, its issue_id, its timestamp, its
\* ai_decision and every other payload key; no other point and no collection changes;
\* the call returns True.  When no point names the issue the server is left as it was
\* and the call returns False.
C21_Step ==
    (store_ret'.op = "update_human_decision" /\ clock' = clock)
    => LET f == store_ret'
           name == f.collection_name
           before == qdrant[name].points
           after == qdrant'[name].points
       IN  /\ \A n \in CollectionNames \ {name} : qdrant'[n] = qdrant[n]
           /\ [qdrant'[name] EXCEPT !.points = {}] = [qdrant[name] EXCEPT !.points = {}]
           /\ IF PointsOf(qdrant, name, f.issue_id) = {}
              THEN f.result = "False" /\ qdrant' = qdrant
              ELSE /\ f.result = "True"
                   /\ \E p \in PointsOf(qdrant, name, f.issue_id) : \E r \in after :
                          /\ SameButFeedback(p, r)
                          /\ after \ {r} = before \ {p}
                          /\ Get(r.payload, "human_decision", "None") = f.human_decision
                          /\ Get(r.payload, "human_reviewed_at", -1) = clock

C21_OnlyFeedbackFields == [][C21_Step]_vars

\* a REJECT with notes has been recorded, later than the issue was stored, on one of
\* two stored points
C21_Witness ==
    /\ store_ret.op = "update_human_decision"
    /\ store_ret.result = "True"
    /\ Cardinality(qdrant[TEXT_COLLECTION].points) = 2
    /\ \E p \in qdrant[TEXT_COLLECTION].points :
           /\ p.id = store_ret.point.id
           /\ p.payload["ai_decision"] = "YELLOW"
           /\ Get(p.payload, "human_decision", "None") = "REJECT"
           /\ Get(p.payload, "moderator_notes", "None") = "policy violation"
           /\ Get(p.payload, "human_reviewed_at", 0) > p.payload["timestamp"]

\* both callers have run update_human_decision for the same issue and both calls have
\* overwritten the payload
BothReviewed ==
    /\ \A c \in Callers : /\ calls[c].op = "update_human_decision"
                          /\ calls[c].pc = "done"
                          /\ calls[c].result = "True"
    /\ calls[1].issue_id = calls[2].issue_id

\* the point the call that returned last has overwritten carries the decision and the
\* notes that call was given, with the vector and the ai_decision it was stored with
LastCallWins ==
    \E p \in qdrant[TEXT_COLLECTION].points :
        /\ p.id = store_ret.point.id
        /\ Get(p.payload, "human_decision", "None") = store_ret.human_decision
        /\ Get(p.payload, "moderator_notes", "None") = store_ret.moderator_notes
        /\ p.vector.dir = "v"
        /\ Get(p.payload, "ai_decision", "None") = "YELLOW"

\* C22: after two update_human_decision calls on the same record, however their
\* requests interleave, the record carries the human_decision and the moderator_notes
\* of the call whose overwrite came last, never a mix, and its vector and ai_decision
\* are as stored.
C22_LastOverwriteWins == BothReviewed => LastCallWins

\* the same when the call whose overwrite came last was given notes
C22_LastOverwriteWinsWithNotes ==
    (BothReviewed /\ store_ret.moderator_notes # "None") => LastCallWins

\* the two calls have raced: each has read the payload before the other wrote it
C22_Raced ==
    /\ BothReviewed
    /\ calls[1].human_decision # calls[2].human_decision
    /\ \A c \in Callers : /\ "human_decision" \notin DOMAIN calls[c].point.payload
                          /\ calls[c].moderator_notes # "None"

\* get_pending_reviews has answered for the server as it is
PendingAnswered == store_ret.op = "get_pending_reviews"

\* the AI's tier for a stored issue is YELLOW: the worker stores the decision engine's
\* final_decision (moderation_worker.py line 60), which is ESCALATE for the tier
\* YELLOW (decision.py lines 39-40 and 59-60)
YellowTier(p) == Get(p.payload, "ai_decision", "None") \in {"YELLOW", "ESCALATE"}

Reviewed(p) == Get(p.payload, "human_decision", "None") \in {"APPROVE", "REJECT"}

Returned(p) == \E n \in DOMAIN store_ret.hits : store_ret.hits[n].point = p.id

\* C23: get_pending_reviews returns at most limit records, each of the tier YELLOW
\* and without a recorded APPROVE or REJECT; and, when no more than limit such records
\* are stored, it returns every record of the tier YELLOW that update_human_decision
\* has not recorded APPROVE or REJECT for, and none it has.
C23_PendingUntilReviewed ==
    PendingAnswered
    => LET points == qdrant[TEXT_COLLECTION].points
           waiting == {p \in points : YellowTier(p) /\ ~Reviewed(p)}
       IN  /\ Len(store_ret.hits) <= store_ret.limit
           /\ \A p \in points : Returned(p) => p \in waiting
           /\ Cardinality(waiting) <= store_ret.limit
              => \A p \in waiting : Returned(p)

\* what the filter of lines 458-475 does return: of the points whose ai_decision is
\* the string YELLOW and whose human_decision is neither APPROVE nor REJECT, the first
\* limit by point id
C23_FilterAsWritten ==
    PendingAnswered
    => LET points == qdrant[TEXT_COLLECTION].points
           matching == {p \in points : /\ Get(p.payload, "ai_decision", "None") = "YELLOW"
                                       /\ ~Reviewed(p)}
       IN  /\ Len(store_ret.hits) = Min(store_ret.limit, Cardinality(matching))
           /\ \A p \in points :
                  Returned(p) <=> /\ p \in matching
                                  /\ Cardinality({r \in matching : r.id < p.id})
                                         < store_ret.limit

\* two points wait for review, one of them with a review of the same issue recorded on
\* another point, and the answer is cut at the limit
C23_CutAtLimit ==
    /\ PendingAnswered
    /\ store_ret.limit = 1
    /\ Len(store_ret.hits) = 1
    /\ \E p, r \in qdrant[TEXT_COLLECTION].points :
           /\ p.id # r.id
           /\ Reviewed(p) /\ ~Reviewed(r) /\ Returned(r)
           /\ p.payload["issue_id"] = r.payload["issue_id"]

\* lines 21-26 and 116-117: the dimension of each collection
CollectionDim(name) ==
    IF name = TEXT_COLLECTION THEN TEXT_EMBEDDING_DIM ELSE IMAGE_EMBEDDING_DIM

\* the step is a call of upsert_embedding with a vector of another length than the
\* dimension of its collection
WrongLengthUpsert ==
    /\ store_ret'.op = "upsert_embedding"
    /\ clock' = clock
    /\ store_ret'.embedding.dim # CollectionDim(store_ret'.collection_name)

\* C24: upsert_embedding with a vector whose length is not the dimension of the
\* collection (384 for issue_embeddings, 512 for image_embeddings) returns False and
\* leaves the server as it was: no point stored, no collection created or changed,
\* whether the collection existed before the call or not.
C24_Step == WrongLengthUpsert => (store_ret'.result = "False" /\ qdrant' = qdrant)

C24_WrongLengthFails == [][C24_Step]_vars

\* the same for a collection that exists with its dimension
C24_ExistingStep ==
    LET name == store_ret'.collection_name IN
    (WrongLengthUpsert /\ qdrant[name].exists /\ qdrant[name].size = CollectionDim(name))
    => (store_ret'.result = "False" /\ qdrant' = qdrant)

C24_WrongLengthFailsOnExisting == [][C24_ExistingStep]_vars

\* a vector of the wrong length has been refused by a collection that holds a point
C24_Refused ==
    /\ store_ret.op = "upsert_embedding"
    /\ store_ret.embedding.dim # CollectionDim(store_ret.collection_name)
    /\ store_ret.result = "False"
    /\ qdrant[TEXT_COLLECTION].size = TEXT_EMBEDDING_DIM
    /\ qdrant[TEXT_COLLECTION].points # {}

\* C25: a call of initialize_collection nobody interleaves with returns without
\* raising, on a collection that exists as on one that does not; after it the
\* collection exists with the dimension it was created with first (that of the call
\* only when the call created it) and with its timestamp index, holds the points it
\* held, and no other collection has changed.
C25_Step ==
    (store_ret'.op = "initialize_collection" /\ clock' = clock)
    => LET name == store_ret'.collection_name IN
       /\ store_ret'.result = "None"
       /\ qdrant'[name].exists
       /\ qdrant'[name].indexed
       /\ qdrant'[name].size = IF qdrant[name].exists THEN qdrant[name].size
                               ELSE store_ret'.dimension
       /\ qdrant'[name].points = qdrant[name].points
       /\ \A n \in CollectionNames \ {name} : qdrant'[n] = qdrant[n]

C25_Idempotent == [][C25_Step]_vars

\* initialize_collection has been called with the dimension 384 for a collection that
\* was created with another dimension and holds a point
C25_Witness ==
    /\ store_ret.op = "initialize_collection"
    /\ store_ret.collection_name = TEXT_COLLECTION
    /\ store_ret.dimension = TEXT_EMBEDDING_DIM
    /\ store_ret.result = "None"
    /\ qdrant[TEXT_COLLECTION].size # TEXT_EMBEDDING_DIM
    /\ qdrant[TEXT_COLLECTION].indexed
    /\ qdrant[TEXT_COLLECTION].points # {}

\* both callers have run upsert_embedding into issue_embeddings with a text embedding
BothUpserted ==
    \A c \in Callers : /\ calls[c].op = "upsert_embedding"
                       /\ calls[c].pc = "done"
                       /\ calls[c].embedding.dim = TEXT_EMBEDDING_DIM

\* the call of the caller has returned True and its point is in the collection
Stored(c) ==
    /\ calls[c].result = "True"
    /\ \E p \in qdrant[TEXT_COLLECTION].points :
           /\ p.id = calls[c].point.id
           /\ p.vector = calls[c].embedding
           /\ Get(p.payload, "issue_id", "None") = calls[c].issue_id

\* C26: two upsert_embedding calls whose requests interleave both return True and both
\* points are stored, also when the collection did not exist before them.
C26_BothStored == BothUpserted => \A c \in Callers : Stored(c)

\* the same for a collection that existed before the two calls
C26_BothStoredInExisting ==
    (BothUpserted /\ \E p \in qdrant[TEXT_COLLECTION].points : p.id = 0)
    => \A c \in Callers : Stored(c)

\* two upserts have run concurrently into a collection that existed, and both are stored
C26_Concurrent ==
    /\ BothUpserted
    /\ Cardinality(qdrant[TEXT_COLLECTION].points) = 3
    /\ \A c \in Callers : Stored(c)

\* the stored text records a query can be compared with, and their similarity and age
Comparable(e) == {p \in qdrant[TEXT_COLLECTION].points : p.vector.dim = e.dim}

SimilarityTo(e, p) == Cosine(e.dir, p.vector.dir)

AgeOf(p) == clock - p.payload["timestamp"]

\* the hit h is made from the point p
HitOf(e, h, p) ==
    /\ h.issue_id = Get(p.payload, "issue_id", "None")
    /\ h.similarity_score = SimilarityTo(e, p)

\* the step is an answer of detect_duplicates: a hit iff some record is at least 0.90
\* similar and at most 24 hours old, and then a most similar one of these
C27_DuplicateStep ==
    (store_ret'.op = "detect_duplicates" /\ clock' = clock) =>
        LET e == store_ret'.embedding
            Near == {p \in Comparable(e) : SimilarityTo(e, p) >= 90 /\ AgeOf(p) <= 24}
        IN  IF Near = {} THEN store_ret'.hits = <<>>
            ELSE /\ Len(store_ret'.hits) = 1
                 /\ \E p \in Near :
                        /\ HitOf(e, store_ret'.hits[1], p)
                        /\ \A r \in Near : SimilarityTo(e, r) <= SimilarityTo(e, p)

\* the step is an answer of get_similar_decisions: the 3 most similar records among
\* those at least 0.75 similar, or all of them if fewer, whatever their age
C27_SimilarStep ==
    (store_ret'.op = "get_similar_decisions" /\ clock' = clock) =>
        LET e == store_ret'.embedding
            hits == store_ret'.hits
            Like == {p \in Comparable(e) : SimilarityTo(e, p) >= 75}
        IN  /\ Len(hits) = Min(3, Cardinality(Like))
            /\ \A i \in 1 .. Len(hits) : \E p \in Like : HitOf(e, hits[i], p)
            /\ \A i \in 1 .. Len(hits) - 1 :
                   hits[i].similarity_score >= hits[i + 1].similarity_score
            /\ \A p \in Like :
                   Len(hits) > 0 /\ SimilarityTo(e, p) > hits[Len(hits)].similarity_score
                   => \E i \in 1 .. Len(hits) : HitOf(e, hits[i], p)

\* C27: detect_duplicates returns a record iff a stored record is at least 0.90 similar
\* to the query and at most 24 hours old, and then the most similar such record;
\* get_similar_decisions returns up to 3 records at least 0.75 similar, of any age.
C27_DuplicatesAndSimilar == [][C27_DuplicateStep /\ C27_SimilarStep]_vars

\* detect_duplicates has returned a record of the window although a record as similar
\* or more similar to the query is older than the window
C27_Witness ==
    /\ store_ret.op = "detect_duplicates"
    /\ Len(store_ret.hits) = 1
    /\ \E p, r \in Comparable(store_ret.embedding) :
           /\ HitOf(store_ret.embedding, store_ret.hits[1], p)
           /\ AgeOf(p) <= 24
           /\ AgeOf(r) > 24
           /\ SimilarityTo(store_ret.embedding, r) >= SimilarityTo(store_ret.embedding, p)

\* get_similar_decisions has returned 3 of 4 similar records, one of them older than
\* the window of detect_duplicates
C27_CutAtThree ==
    /\ store_ret.op = "get_similar_decisions"
    /\ Len(store_ret.hits) = 3
    /\ Cardinality({p \in Comparable(store_ret.embedding) :
                       SimilarityTo(store_ret.embedding, p) >= 75}) = 4
    /\ \E p \in Comparable(store_ret.embedding) :
           /\ HitOf(store_ret.embedding, store_ret.hits[1], p)
           /\ AgeOf(p) > 24

\* the answer is of classify_full, and the hit is a record of the classified issue
OwnRecord(answer, h) == answer.op = "classify_full" /\ h.issue_id = answer.issue_id

\* C28: neither the duplicate query nor the query for similar decisions of
\* classify_full returns a record of the issue that is being classified, also when
\* the issue was classified and stored before.
C28_NeverOwnRecord ==
    \A i \in DOMAIN store_ret.hits : ~OwnRecord(store_ret, store_ret.hits[i])

\* the same for an issue no record of which is stored when classify_full runs
C28_FirstRunStep ==
    (/\ store_ret'.op = "classify_full"
     /\ clock' = clock
     /\ \A p \in qdrant[TEXT_COLLECTION].points :
            Get(p.payload, "issue_id", "None") # store_ret'.issue_id)
    => \A i \in DOMAIN store_ret'.hits : ~OwnRecord(store_ret', store_ret'.hits[i])

C28_NeverOwnRecordAtFirstRun == [][C28_FirstRunStep]_vars

\* classify_full of an issue that is not stored has returned the record of another
\* issue as its duplicate
C28_OtherRecord ==
    /\ store_ret.op = "classify_full"
    /\ store_ret.hits # <<>>
    /\ \A p \in qdrant[TEXT_COLLECTION].points :
           Get(p.payload, "issue_id", "None") # store_ret.issue_id
    /\ store_ret.hits[1].similarity_score >= 90

----------------------------------------------------------------------------
(* Properties of retry_pending_deliveries while it runs *)

\* the task runs retry_pending_deliveries and no other call has run since it started
RetriesAlone(t) == Busy(t) /\ op[t] = "retry" /\ ~hist[t].overlap

\* C29: a retry_pending_deliveries call re-attempts at most as many deliveries as the
\* list held when it was called, whatever the destination answers during the call
\* (so its loop ends after that many re-attempts).
C29_BoundedReattempts ==
    \A t \in Tasks : RetriesAlone(t) => rp[t].retried <= hist[t].startLen

\* the bound the loop of lines 250-260 does keep: every failed re-attempt puts one more
\* entry on the list the loop runs over
C29_BoundGrowsWithFailures ==
    \A t \in Tasks : RetriesAlone(t) => rp[t].retried <= hist[t].startLen + rp[t].failed

\* a call that started with one entry is at its second re-attempt, the first having
\* failed
C29_SecondReattempt ==
    \E t \in Tasks : /\ RetriesAlone(t)
                     /\ hist[t].startLen = 1
                     /\ rp[t].failed = 1
                     /\ rp[t].retried = 2

----------------------------------------------------------------------------
(* Properties of the records of one issue *)

\* C30: a collection never holds two points whose payload names the same issue: a
\* second upsert_embedding for an issue does not add a second point.
C30_OneRecordPerIssue ==
    \A n \in CollectionNames : \A p, r \in qdrant[n].points :
        Get(p.payload, "issue_id", "None") = Get(r.payload, "issue_id", "None") => p = r

\* update_human_decision has returned True
FeedbackRecorded == store_ret.op = "update_human_decision" /\ store_ret.result = "True"

HasDecision(p) == Get(p.payload, "human_decision", "None") = store_ret.human_decision

\* the second half of C30: after update_human_decision has returned True every record
\* of the issue carries the decision
C30_FeedbackOnEveryRecord ==
    FeedbackRecorded
    => \A p \in PointsOf(qdrant, store_ret.collection_name, store_ret.issue_id) :
           HasDecision(p)

\* what lines 397-432 do: the record of the issue with the least point id carries it
C30_FeedbackOnFirstMatch ==
    FeedbackRecorded
    => \E p \in PointsOf(qdrant, store_ret.collection_name, store_ret.issue_id) :
           /\ HasDecision(p)
           /\ \A r \in PointsOf(qdrant, store_ret.collection_name, store_ret.issue_id) :
                  p.id <= r.id

\* an issue has two records, and update_human_decision has recorded the decision on
\* one of them only
C30_SecondRecordLeft ==
    /\ FeedbackRecorded
    /\ \E p, r \in PointsOf(qdrant, store_ret.collection_name, store_ret.issue_id) :
           /\ p.id < r.id
           /\ HasDecision(p)
           /\ Get(r.payload, "human_decision", "None") = "None"

====
